---------------------------- MODULE Spec2Model ----------------------------
(***************************************************************************)
(* Model of the workout-log parsing engine of openclaw-workout-logger      *)
(* (src/workout_logger/parser.py, exercises.py, models.py).                *)
(*                                                                         *)
(* Python strings are modelled as sequences of one-character strings, so   *)
(* that every regular expression, split, strip, lower and int()/float()    *)
(* conversion is computed character by character as the code does.         *)
(* Optional values (Python None / an absent dict key) are modelled as      *)
(* sequences of length 0 (absent) or 1 (present).                          *)
(* The calls of the parser are pure; writeWorkoutLog acts on the file     *)
(* system fs and the git repository repo; written is the history of its    *)
(* calls.                                                                   *)
(***************************************************************************)
EXTENDS Integers, Sequences, FiniteSets, TLC

VARIABLES pc, call, result, fs, repo, written

vars == <<pc, call, result, fs, repo, written>>

-----------------------------------------------------------------------------
(* Optional values *)

None == <<>>
Some(v) == <<v>>

-----------------------------------------------------------------------------
(* Characters and Python string primitives *)

DigitChars == <<"0","1","2","3","4","5","6","7","8","9">>
Digits == {DigitChars[i] : i \in 1..10}
DigitVal(c) == (CHOOSE i \in 1..10 : DigitChars[i] = c) - 1

UpperChars == <<"A","B","C","D","E","F","G","H","I","J","K","L","M",
                "N","O","P","Q","R","S","T","U","V","W","X","Y","Z">>
LowerChars == <<"a","b","c","d","e","f","g","h","i","j","k","l","m",
                "n","o","p","q","r","s","t","u","v","w","x","y","z">>

\* str.lower() on one character
LowerChar(c) ==
    IF \E i \in 1..26 : UpperChars[i] = c
    THEN LowerChars[CHOOSE i \in 1..26 : UpperChars[i] = c]
    ELSE c

\* str.lower()
Lower(s) == [i \in 1..Len(s) |-> LowerChar(s[i])]

\* the characters str.strip() / str.split() / \s treat as whitespace
Whitespace == {" ", "\t", "\n"}

\* s[a-1:b] in Python terms: characters a..b (1-based, inclusive)
Slice(s, a, b) == SubSeq(s, a, b)

\* str.strip()
Strip(s) ==
    LET keep == {i \in 1..Len(s) : s[i] \notin Whitespace}
    IN IF keep = {} THEN <<>>
       ELSE LET lo == CHOOSE i \in keep : \A j \in keep : i <= j
                hi == CHOOSE i \in keep : \A j \in keep : j <= i
            IN Slice(s, lo, hi)

\* str.split(sep) on a one-character separator: empty pieces are kept
RECURSIVE SplitOn(_, _)
SplitOn(s, sep) ==
    IF \A i \in 1..Len(s) : s[i] # sep THEN <<s>>
    ELSE LET k == CHOOSE i \in 1..Len(s) :
                     s[i] = sep /\ \A j \in 1..(i-1) : s[j] # sep
         IN <<Slice(s, 1, k-1)>> \o SplitOn(Slice(s, k+1, Len(s)), sep)

\* str.split() with no argument: runs of whitespace separate, no empty pieces
RECURSIVE Split(_)
SplitStripped(t) ==
    IF t = <<>> THEN <<>>
    ELSE IF \A i \in 1..Len(t) : t[i] \notin Whitespace THEN <<t>>
    ELSE LET k == CHOOSE i \in 1..Len(t) :
                     t[i] \in Whitespace /\ \A j \in 1..(i-1) : t[j] \notin Whitespace
         IN <<Slice(t, 1, k-1)>> \o Split(Slice(t, k+1, Len(t)))

Split(s) == SplitStripped(Strip(s))

\* ' '.join(words)
RECURSIVE Join(_)
Join(words) ==
    IF Len(words) = 0 THEN <<>>
    ELSE IF Len(words) = 1 THEN words[1]
    ELSE words[1] \o <<" ">> \o Join(Tail(words))

\* the regular expression ^\d+$
IsDigits(s) == Len(s) > 0 /\ \A i \in 1..Len(s) : s[i] \in Digits

\* value of a digit string
RECURSIVE DigitsVal(_)
DigitsVal(s) ==
    IF Len(s) = 0 THEN 0
    ELSE 10 * DigitsVal(Slice(s, 1, Len(s)-1)) + DigitVal(s[Len(s)])

\* the digits of an int() literal: digits, single underscores between them
IsIntBody(s) ==
    /\ Len(s) > 0
    /\ \A i \in 1..Len(s) : s[i] \in Digits \cup {"_"}
    /\ s[1] # "_" /\ s[Len(s)] # "_"
    /\ \A i \in 1..(Len(s)-1) : ~(s[i] = "_" /\ s[i+1] = "_")

\* int(s) succeeds (s already stripped): optional sign, then the digits
IntOk(s) ==
    \/ IsIntBody(s)
    \/ Len(s) > 1 /\ s[1] \in {"+", "-"} /\ IsIntBody(Tail(s))

\* int(s)
Int_(s) ==
    IF s[1] = "-" THEN 0 - DigitsVal(SelectSeq(Tail(s), LAMBDA c : c # "_"))
    ELSE IF s[1] = "+" THEN DigitsVal(SelectSeq(Tail(s), LAMBDA c : c # "_"))
    ELSE DigitsVal(SelectSeq(s, LAMBDA c : c # "_"))

\* the regular expression ^\d+(?:\.\d+)?$
IsNumber(s) ==
    \/ IsDigits(s)
    \/ \E k \in 1..Len(s) : /\ s[k] = "."
                            /\ IsDigits(Slice(s, 1, k-1))
                            /\ IsDigits(Slice(s, k+1, Len(s)))

RECURSIVE Pow10(_)
Pow10(n) == IF n = 0 THEN 1 ELSE 10 * Pow10(n-1)

\* a float is the pair <<m, e>> denoting m / 10^e, with no trailing zero
RECURSIVE NormFloat(_, _)
NormFloat(m, e) ==
    IF e > 0 /\ m % 10 = 0 THEN NormFloat(m \div 10, e-1) ELSE <<m, e>>

\* float of the digits around the decimal point at position k
FloatAt(s, k) ==
    NormFloat(DigitsVal(Slice(s, 1, k-1)) * Pow10(Len(s) - k)
                + DigitsVal(Slice(s, k+1, Len(s))),
              Len(s) - k)

\* float(s) for s matching IsNumber
Float(s) ==
    IF IsDigits(s) THEN <<DigitsVal(s), 0>>
    ELSE FloatAt(s, CHOOSE i \in 1..Len(s) : s[i] = ".")

\* int(f) for a float f: truncation
IntOfFloat(f) == f[1] \div Pow10(f[2])

-----------------------------------------------------------------------------
(* exercises.py *)

EXERCISE_MAP ==
    {
       <<<<"s","q","u","a","t">>, "squat">>,
       <<<<"s","q">>, "squat">>,
       <<<<"b","e","n","c","h">>, "bench_press">>,
       <<<<"b","e","n","c","h"," ","p","r","e","s","s">>, "bench_press">>,
       <<<<"b","p">>, "bench_press">>,
       <<<<"d","e","a","d","l","i","f","t">>, "deadlift">>,
       <<<<"d","l">>, "deadlift">>,
       <<<<"o","h","p">>, "ohp">>,
       <<<<"o","v","e","r","h","e","a","d"," ","p","r","e","s","s">>, "ohp">>,
       <<<<"o","p">>, "ohp">>,
       <<<<"p","r","e","s","s">>, "ohp">>,
       <<<<"r","o","w">>, "barbell_row">>,
       <<<<"r","o","w","s">>, "barbell_row">>,
       <<<<"b","a","r","b","e","l","l"," ","r","o","w">>, "barbell_row">>,
       <<<<"b","e","n","t"," ","o","v","e","r"," ","r","o","w">>, "barbell_row">>,
       <<<<"i","n","c","l","i","n","e"," ","r","o","w">>, "incline_row">>,
       <<<<"w","e","i","g","h","t","e","d"," ","d","i","p">>, "weighted_dip">>,
       <<<<"d","i","p">>, "dip">>,
       <<<<"c","h","i","n"," ","u","p">>, "chin_up">>,
       <<<<"c","h","i","n","-","u","p">>, "chin_up">>,
       <<<<"c","h","i","n","u","p">>, "chin_up">>,
       <<<<"w","e","i","g","h","t","e","d"," ","c","h","i","n"," ","u","p">>, "weighted_chin_up">>,
       <<<<"p","u","l","l"," ","u","p">>, "pull_up">>,
       <<<<"p","u","l","l","-","u","p">>, "pull_up">>,
       <<<<"p","u","l","l","u","p">>, "pull_up">>,
       <<<<"w","e","i","g","h","t","e","d"," ","p","u","l","l"," ","u","p">>, "weighted_pull_up">>,
       <<<<"w","e","i","g","h","t","e","d"," ","p","u","l","l","u","p">>, "weighted_pull_up">>,
       <<<<"w","e","i","g","h","t","e","d"," ","p","u","l","l","-","u","p">>, "weighted_pull_up">>,
       <<<<"d","r","a","g","o","n"," ","f","l","a","g">>, "dragon_flag">>,
       <<<<"d","r","a","g","o","n","-","f","l","a","g">>, "dragon_flag">>,
       <<<<"d","r","a","g","o","n","f","l","a","g">>, "dragon_flag">>,
       <<<<"s","h","r","u","g">>, "shrug">>,
       <<<<"d","b"," ","b","e","n","c","h">>, "dumbbell_bench_press">>,
       <<<<"d","u","m","b","b","e","l","l"," ","b","e","n","c","h">>, "dumbbell_bench_press">>,
       <<<<"d","b"," ","p","r","e","s","s">>, "dumbbell_bench_press">>,
       <<<<"c","h","e","s","t"," ","p","r","e","s","s">>, "chest_press_machine">>,
       <<<<"c","h","e","s","t"," ","p","r","e","s","s"," ","m","a","c","h","i","n","e">>, "chest_press_machine">>,
       <<<<"t","r","i","c","e","p"," ","d","i","p"," ","m","a","c","h","i","n","e">>, "tricep_dip_machine">>,
       <<<<"t","r","i","c","e","i","p"," ","d","i","p">>, "tricep_dip_machine">>,
       <<<<"a","b"," ","c","r","u","n","c","h">>, "ab_crunch">>,
       <<<<"a","b","_","c","r","u","n","c","h">>, "ab_crunch">>,
       <<<<"c","y","b","e","x"," ","a","b"," ","c","r","u","n","c","h">>, "cybex_ab_crunch">>,
       <<<<"c","y","b","e","x","_","a","b","_","c","r","u","n","c","h">>, "cybex_ab_crunch">>,
       <<<<"l","e","g"," ","p","r","e","s","s">>, "leg_press">>,
       <<<<"l","e","g","_","p","r","e","s","s">>, "leg_press">>,
       <<<<"h","a","c","k"," ","s","q","u","a","t">>, "hack_squat">>,
       <<<<"h","a","c","k","_","s","q","u","a","t">>, "hack_squat">>,
       <<<<"f","a","c","e"," ","p","u","l","l","s">>, "face_pulls">>,
       <<<<"f","a","c","e"," ","p","u","l","l">>, "face_pulls">>,
       <<<<"l","a","t"," ","p","u","l","l","d","o","w","n">>, "lat_pulldown">>,
       <<<<"l","a","t"," ","p","u","l","l"," ","d","o","w","n">>, "lat_pulldown">>,
       <<<<"l","a","t"," ","p","u","l","l","-","d","o","w","n">>, "lat_pulldown">>,
       <<<<"t","r","e","a","d","m","i","l","l">>, "treadmill">>,
       <<<<"t","m">>, "treadmill">>,
       <<<<"r","o","w","i","n","g">>, "rowing">>,
       <<<<"r","o","w","e","r">>, "rowing">>,
       <<<<"r","o","w"," ","m","a","c","h","i","n","e">>, "rowing">>,
       <<<<"b","i","k","e">>, "stationary_bike">>,
       <<<<"s","t","a","t","i","o","n","a","r","y"," ","b","i","k","e">>, "stationary_bike">>
    }

EXERCISE_TYPE ==
    {
       <<"squat", "strength">>,
       <<"bench_press", "strength">>,
       <<"deadlift", "strength">>,
       <<"ohp", "strength">>,
       <<"barbell_row", "strength">>,
       <<"incline_row", "strength">>,
       <<"weighted_dip", "strength">>,
       <<"dumbbell_bench_press", "strength">>,
       <<"shrug", "strength">>,
       <<"dip", "bodyweight">>,
       <<"chin_up", "bodyweight">>,
       <<"weighted_chin_up", "bodyweight">>,
       <<"pull_up", "bodyweight">>,
       <<"weighted_pull_up", "bodyweight">>,
       <<"dragon_flag", "bodyweight">>,
       <<"chest_press_machine", "machine">>,
       <<"tricep_dip_machine", "machine">>,
       <<"ab_crunch", "machine">>,
       <<"cybex_ab_crunch", "machine">>,
       <<"leg_press", "machine">>,
       <<"hack_squat", "machine">>,
       <<"face_pulls", "machine">>,
       <<"lat_pulldown", "machine">>,
       <<"treadmill", "cardio">>,
       <<"rowing", "cardio">>,
       <<"stationary_bike", "cardio">>
    }

\* normalizeExercise: None when the phrase is not registered
normalizeExercise(exercise_str) ==
    LET lower == Strip(Lower(exercise_str))
    IN IF \E e \in EXERCISE_MAP : e[1] = lower
       THEN Some((CHOOSE e \in EXERCISE_MAP : e[1] = lower)[2])
       ELSE None

\* getExerciseType: None when the identifier is not classified
getExerciseType(exercise_norm) ==
    IF \E e \in EXERCISE_TYPE : e[1] = exercise_norm
    THEN Some((CHOOSE e \in EXERCISE_TYPE : e[1] = exercise_norm)[2])
    ELSE None

\* the canonical identifiers that contain the substring 'dumbbell'
DumbbellNames == {"dumbbell_bench_press"}

-----------------------------------------------------------------------------
(* Results of a call: a value, or the ValueError the call raises.  The error *)
(* kinds name the messages the code raises: UnparsableFormat is 'Could not   *)
(* parse format', InvalidRepToken is the ValueError of int() on a rep entry. *)

Ok(v) == [error |-> "none", detail |-> <<>>, value |-> v]
Fail(kind, detail) == [error |-> kind, detail |-> detail, value |-> <<>>]

-----------------------------------------------------------------------------
(* models.py *)

StrengthSet(weight, reps, failed) ==
    [weight |-> weight, reps |-> reps, failed |-> failed]

-----------------------------------------------------------------------------
(* parser.py: parseRepList *)

FailMarkers == {<<"x">>, <<"f">>, <<"f","a","i","l">>}

\* a variant that counts a failed set as one rep
RepEntry_FailedCountsOne(trimmed) ==
    IF trimmed \in FailMarkers
    THEN [reps |-> 1, failed |-> Some(TRUE)]
    ELSE [reps |-> Int_(trimmed), failed |-> None]

\* one entry of the list for one trimmed, lowercased piece
RepEntry(trimmed) ==
    IF trimmed \in FailMarkers
    THEN [reps |-> 0, failed |-> Some(TRUE)]
    ELSE [reps |-> Int_(trimmed), failed |-> None]

\* int(trimmed) raises for this piece
RepPieceBad(trimmed) == trimmed \notin FailMarkers /\ ~IntOk(trimmed)

\* the loop over the pieces: the first bad piece raises, nothing is returned then
RepListOf(trimmed) ==
    IF \E i \in 1..Len(trimmed) : RepPieceBad(trimmed[i])
    THEN Fail("InvalidRepToken",
              trimmed[CHOOSE i \in 1..Len(trimmed) :
                         /\ ~(trimmed[i] \in FailMarkers) /\ ~IntOk(trimmed[i])
                         /\ \A j \in 1..(i-1) : trimmed[j] \in FailMarkers \/ IntOk(trimmed[j])])
    ELSE Ok([i \in 1..Len(trimmed) |-> RepEntry(trimmed[i])])

\* p.strip().lower() of every piece
TrimAll(parts) == [i \in 1..Len(parts) |-> Lower(Strip(parts[i]))]

parseRepList(rep_str) == RepListOf(TrimAll(SplitOn(rep_str, ",")))

-----------------------------------------------------------------------------
(* parser.py: the regular expressions of parseStrengthWorkout *)

XChars == {"x", "X"}
RepChars == Digits \cup {",", "x", "f", "X", "F"}

\* position of the first x or X of s (0 when there is none)
FirstX(s) ==
    IF \E i \in 1..Len(s) : s[i] \in XChars
    THEN CHOOSE i \in 1..Len(s) : s[i] \in XChars /\ \A j \in 1..(i-1) : s[j] \notin XChars
    ELSE 0

\* ^[\d,xfXF]+$
MatchRepChars(s) == Len(s) > 0 /\ \A i \in 1..Len(s) : s[i] \in RepChars

HasComma(s) == \E i \in 1..Len(s) : s[i] = ","

\* ^2x(\d+)$ (IGNORECASE)
MatchDumbbell(s) ==
    Len(s) >= 3 /\ s[1] = "2" /\ s[2] \in XChars /\ IsDigits(Slice(s, 3, Len(s)))

\* ^(\d+)x([\d,]+)$ (IGNORECASE), the x at position k
SetsFormatAt(s, k) ==
    /\ k > 1 /\ k < Len(s)
    /\ IsDigits(Slice(s, 1, k-1))
    /\ \A i \in (k+1)..Len(s) : s[i] \in Digits \cup {","}

MatchSetsFormat(s) == SetsFormatAt(s, FirstX(s))

\* ^(\d+(?:\.\d+)?)x(\d+)$ (IGNORECASE), the x at position k
NxMAt(s, k) == k > 1 /\ IsNumber(Slice(s, 1, k-1)) /\ IsDigits(Slice(s, k+1, Len(s)))

MatchNxM(s) == NxMAt(s, FirstX(s))

\* ^x?(\d+)$ (IGNORECASE)
MatchThird(s) ==
    \/ IsDigits(s)
    \/ Len(s) > 1 /\ s[1] \in XChars /\ IsDigits(Tail(s))

\* ^(\d+)x(\d+)$ (IGNORECASE), the x at position k
SxRAt(s, k) == k > 1 /\ IsDigits(Slice(s, 1, k-1)) /\ IsDigits(Slice(s, k+1, Len(s)))

MatchSxR(s) == SxRAt(s, FirstX(s))

\* ^(\d+(?:\.\d+)?)x(\d+)x(\d+)$ (IGNORECASE), the first x at position k
NxMxPAt(s, k) ==
    k > 1 /\ IsNumber(Slice(s, 1, k-1)) /\ MatchSxR(Slice(s, k+1, Len(s)))

MatchNxMxP(s) == NxMxPAt(s, FirstX(s))

\* the text before / after the first x of a matched token
BeforeX(s) == Slice(s, 1, FirstX(s) - 1)
AfterX(s) == Slice(s, FirstX(s) + 1, Len(s))

\* n copies of one set
Repeat(n, set) == [i \in 1..n |-> set]

-----------------------------------------------------------------------------
(* parser.py: parseStrengthWorkout *)

PerDumbbell == <<"p","e","r"," ","d","u","m","b","b","e","l","l">>

\* what a recognizer leaves behind: the locals sets, weight, notes, parts_consumed
Matched(sets, weight, notes, parts_consumed) ==
    [error |-> "none", detail |-> <<>>, sets |-> sets, weight |-> weight,
     notes |-> notes, parts_consumed |-> parts_consumed]

Raised(kind, detail) ==
    [error |-> kind, detail |-> detail, sets |-> <<>>, weight |-> None,
     notes |-> <<>>, parts_consumed |-> 0]

\* a variant that also takes the token after the number
BareReps_TakesTwo(first_part) ==
    Matched(<<StrengthSet(None, DigitsVal(first_part), FALSE)>>, None, <<>>, 2)

\* Format: single number for bodyweight
BareReps(first_part) ==
    Matched(<<StrengthSet(None, DigitsVal(first_part), FALSE)>>, None, <<>>, 1)

\* mutant: a failed entry is recorded as a plain set of zero reps
RepsOnlySets_NoFailedFlag(rep_list) ==
    IF rep_list.error # "none" THEN Raised(rep_list.error, rep_list.detail)
    ELSE Matched([i \in 1..Len(rep_list.value) |->
                     StrengthSet(None, rep_list.value[i].reps, FALSE)],
                 None, <<>>, 1)

\* the sets of a rep list without weight
RepsOnlySets(rep_list) ==
    IF rep_list.error # "none" THEN Raised(rep_list.error, rep_list.detail)
    ELSE Matched([i \in 1..Len(rep_list.value) |->
                     IF rep_list.value[i].failed = Some(TRUE)
                     THEN StrengthSet(None, 0, TRUE)
                     ELSE StrengthSet(None, rep_list.value[i].reps, FALSE)],
                 None, <<>>, 1)

\* Format: comma-separated reps only
RepsOnly(first_part) == RepsOnlySets(parseRepList(first_part))

\* uniform_sets sets of the first rep count, then one set per further rep count
DumbbellSets(weight, uniform_sets, reps_list) ==
    Repeat(uniform_sets, StrengthSet(Some(weight), reps_list[1], FALSE))
    \o [i \in 1..(Len(reps_list) - 1) |-> StrengthSet(Some(weight), reps_list[i+1], FALSE)]

DumbbellMatched(weight, sets) ==
    Matched(sets, Some(weight), IF Len(sets) > 0 THEN PerDumbbell ELSE <<>>, 2)

\* the second part "4x10,7": int(r.strip()) of an empty piece raises
DumbbellSetsFormat(weight, uniform_sets, pieces) ==
    IF \E i \in 1..Len(pieces) : ~IntOk(pieces[i])
    THEN Raised("InvalidRepToken",
                pieces[CHOOSE i \in 1..Len(pieces) :
                          ~IntOk(pieces[i]) /\ \A j \in 1..(i-1) : IntOk(pieces[j])])
    ELSE DumbbellMatched(weight,
            DumbbellSets(weight, uniform_sets, [i \in 1..Len(pieces) |-> Int_(pieces[i])]))

StripAll(pieces) == [i \in 1..Len(pieces) |-> Strip(pieces[i])]

DumbbellWeighted(parts, weight) ==
    IF Len(parts) > 1 /\ MatchSetsFormat(parts[2])
    THEN DumbbellSetsFormat(weight, DigitsVal(BeforeX(parts[2])),
                            StripAll(SplitOn(AfterX(parts[2]), ",")))
    ELSE Matched(<<>>, Some(weight), <<>>, 1)

\* Format: dumbbell pair notation, then the sets
DumbbellPair(parts) == DumbbellWeighted(parts, Float(Slice(parts[1], 3, Len(parts[1]))))

\* the number after the optional x of the third part
ThirdNumber(s) == DigitsVal(IF s[1] \in XChars THEN Tail(s) ELSE s)

\* mutant: the bodyweight reading is tried before the third number
TwoNumbersOf_BodyweightFirst(parts, is_bodyweight, num1, num2) ==
    IF is_bodyweight
    THEN Matched(Repeat(IntOfFloat(num1), StrengthSet(None, num2, FALSE)), None, <<>>, 1)
    ELSE IF Len(parts) > 1 /\ MatchThird(parts[2])
    THEN Matched(Repeat(num2, StrengthSet(Some(num1), ThirdNumber(parts[2]), FALSE)),
                 Some(num1), <<>>, 2)
    ELSE Matched(<<StrengthSet(Some(num1), num2, FALSE)>>, Some(num1), <<>>, 1)

TwoNumbersOf(parts, is_bodyweight, num1, num2) ==
    IF Len(parts) > 1 /\ MatchThird(parts[2])
    THEN Matched(Repeat(num2, StrengthSet(Some(num1), ThirdNumber(parts[2]), FALSE)),
                 Some(num1), <<>>, 2)
    ELSE IF is_bodyweight
    THEN Matched(Repeat(IntOfFloat(num1), StrengthSet(None, num2, FALSE)), None, <<>>, 1)
    ELSE Matched(<<StrengthSet(Some(num1), num2, FALSE)>>, Some(num1), <<>>, 1)

\* Format: "NxM" where context determines meaning
TwoNumbers(parts, is_bodyweight) ==
    TwoNumbersOf(parts, is_bodyweight, Float(BeforeX(parts[1])), DigitsVal(AfterX(parts[1])))

\* set_count identical weighted sets
UniformSets(weight, set_count, reps_per_set, parts_consumed) ==
    Matched(Repeat(set_count, StrengthSet(Some(weight), reps_per_set, FALSE)),
            Some(weight), <<>>, parts_consumed)

\* mutant: set count and reps per set read in the other order
Fused_SwappedCounts(first_part) ==
    UniformSets(Float(BeforeX(first_part)),
                DigitsVal(AfterX(AfterX(first_part))),
                DigitsVal(BeforeX(AfterX(first_part))), 1)

\* Format: "NxMxP" all in one
Fused(first_part) ==
    UniformSets(Float(BeforeX(first_part)),
                DigitsVal(BeforeX(AfterX(first_part))),
                DigitsVal(AfterX(AfterX(first_part))), 1)

\* Format: weight followed by SetsxReps
WeightThenSxR(parts) ==
    UniformSets(Float(parts[1]), DigitsVal(BeforeX(parts[2])), DigitsVal(AfterX(parts[2])), 2)

\* the sets of a rep list at one weight
WeightedRepSets(weight, rep_list) ==
    IF rep_list.error # "none" THEN Raised(rep_list.error, rep_list.detail)
    ELSE Matched([i \in 1..Len(rep_list.value) |->
                     StrengthSet(Some(weight), rep_list.value[i].reps,
                                 rep_list.value[i].failed = Some(TRUE))],
                 Some(weight), <<>>, 2)

\* Format: weight followed by comma-separated reps
WeightThenReps(parts) == WeightedRepSets(Float(parts[1]), parseRepList(parts[2]))

IsBodyweight(exercise_norm) == getExerciseType(exercise_norm) = Some("bodyweight")

\* 'dumbbell' in exercise_norm
IsDumbbell(exercise_norm) == exercise_norm \in DumbbellNames

\* mutant: the cascade without the fused "NxMxP" arm
MatchFormat_NoFused(exercise_norm, rest, parts) ==
    IF IsBodyweight(exercise_norm) /\ IsDigits(parts[1]) THEN BareReps(parts[1])
    ELSE IF MatchRepChars(parts[1]) /\ HasComma(parts[1]) THEN RepsOnly(parts[1])
    ELSE IF IsDumbbell(exercise_norm) /\ MatchDumbbell(parts[1]) THEN DumbbellPair(parts)
    ELSE IF MatchNxM(parts[1]) THEN TwoNumbers(parts, IsBodyweight(exercise_norm))
    ELSE IF IsNumber(parts[1]) /\ Len(parts) > 1 /\ MatchSxR(parts[2])
         THEN WeightThenSxR(parts)
    ELSE IF IsNumber(parts[1]) /\ Len(parts) > 1 /\ MatchRepChars(parts[2])
         THEN WeightThenReps(parts)
    ELSE Raised("UnparsableFormat", rest)

\* the if / elif cascade over the first one or two parts
MatchFormat(exercise_norm, rest, parts) ==
    IF IsBodyweight(exercise_norm) /\ IsDigits(parts[1]) THEN BareReps(parts[1])
    ELSE IF MatchRepChars(parts[1]) /\ HasComma(parts[1]) THEN RepsOnly(parts[1])
    ELSE IF IsDumbbell(exercise_norm) /\ MatchDumbbell(parts[1]) THEN DumbbellPair(parts)
    ELSE IF MatchNxM(parts[1]) THEN TwoNumbers(parts, IsBodyweight(exercise_norm))
    ELSE IF MatchNxMxP(parts[1]) THEN Fused(parts[1])
    ELSE IF IsNumber(parts[1]) /\ Len(parts) > 1 /\ MatchSxR(parts[2])
         THEN WeightThenSxR(parts)
    ELSE IF IsNumber(parts[1]) /\ Len(parts) > 1 /\ MatchRepChars(parts[2])
         THEN WeightThenReps(parts)
    ELSE Raised("UnparsableFormat", rest)

\* re.search(r'rpe(\d+)', ..., IGNORECASE) matches at position i
RpeAt(s, i) ==
    /\ i + 3 <= Len(s)
    /\ Lower(Slice(s, i, i+2)) = <<"r","p","e">>
    /\ s[i+3] \in Digits

\* last index of the run of digits that starts at j
DigitRunEnd(s, j) ==
    CHOOSE e \in j..Len(s) :
        /\ \A i \in j..e : s[i] \in Digits
        /\ (e = Len(s) \/ s[e+1] \notin Digits)

\* the number of the rpe marker at position i
RpeNumber(s, i) == DigitsVal(Slice(s, i+3, DigitRunEnd(s, i+3)))

\* the number of the first rpe marker, None when there is none
FindRpe(s) ==
    IF \E i \in 1..Len(s) : RpeAt(s, i)
    THEN Some(RpeNumber(s, CHOOSE i \in 1..Len(s) : RpeAt(s, i) /\ \A j \in 1..(i-1) : ~RpeAt(s, j)))
    ELSE None

\* re.sub(r'rpe\d+', '', s, flags=IGNORECASE)
RECURSIVE RemoveRpe(_)
RemoveRpe(s) ==
    IF Len(s) = 0 THEN <<>>
    ELSE IF RpeAt(s, 1) THEN RemoveRpe(Slice(s, DigitRunEnd(s, 4) + 1, Len(s)))
    ELSE <<s[1]>> \o RemoveRpe(Tail(s))

SepNotes == <<";", " ">>

Unit == "lb"

\* the record dict: absent keys are None (unit, rpe) or the empty text (notes)
StrengthRecord(iso_ts, exercise_type, exercise_norm, unit, sets, rpe, notes) ==
    [ts |-> iso_ts, type |-> exercise_type, exercise |-> exercise_norm,
     unit |-> unit, sets |-> sets, rpe |-> rpe, notes |-> notes]

\* notes seeded by the recognizer, then the text that is left
NotesOf(notes, notes_from_remaining) ==
    IF notes_from_remaining = <<>> THEN notes
    ELSE IF notes # <<>> THEN notes \o SepNotes \o notes_from_remaining
    ELSE notes_from_remaining

\* rpe, notes and the record from what the recognizer left
StrengthFinish(exercise_norm, iso_ts, m, remaining) ==
    Ok(StrengthRecord(iso_ts, getExerciseType(exercise_norm), exercise_norm,
                      IF m.weight # None THEN Some(Unit) ELSE None,
                      m.sets, FindRpe(remaining),
                      NotesOf(m.notes, Strip(RemoveRpe(remaining)))))

\* variant: the last part the recognizer consumed is kept in the remaining text
StrengthMatched_KeepsLastConsumed(exercise_norm, iso_ts, parts, m) ==
    IF m.error # "none" THEN Fail(m.error, m.detail)
    ELSE StrengthFinish(exercise_norm, iso_ts, m,
                        Join(SubSeq(parts, m.parts_consumed, Len(parts))))

\* a raised error ends the call, otherwise the parts after parts_consumed remain
StrengthMatched(exercise_norm, iso_ts, parts, m) ==
    IF m.error # "none" THEN Fail(m.error, m.detail)
    ELSE StrengthFinish(exercise_norm, iso_ts, m,
                        Join(SubSeq(parts, m.parts_consumed + 1, Len(parts))))

StrengthParts(exercise_norm, rest, iso_ts, parts) ==
    StrengthMatched(exercise_norm, iso_ts, parts, MatchFormat(exercise_norm, rest, parts))

parseStrengthWorkout(exercise_norm, rest, iso_ts) ==
    IF Strip(rest) = <<>>
    THEN Ok(StrengthRecord(iso_ts, getExerciseType(exercise_norm), exercise_norm,
                           None, <<>>, None, <<>>))
    ELSE StrengthParts(exercise_norm, rest, iso_ts, Split(Strip(rest)))
-----------------------------------------------------------------------------
(* datetime: the reference instants of the parser.  A datetime carries its   *)
(* zone (tzinfo "none" for a naive one), its wall-clock fields in that zone  *)
(* and its fold bit.                                                         *)

PACIFIC_TZ == "America/Los_Angeles"

\* utcoffset() in minutes of the fixed-offset zones a caller may pass
FixedOffset(tzinfo) == IF tzinfo = "Asia/Tokyo" THEN 540 ELSE 0

IsLeap(year) == year % 4 = 0 /\ (year % 100 # 0 \/ year % 400 = 0)

DaysInMonth(year, month) ==
    IF month = 2 THEN (IF IsLeap(year) THEN 29 ELSE 28)
    ELSE IF month \in {4, 6, 9, 11} THEN 30 ELSE 31

\* days before January 1st of year (proleptic Gregorian ordinal, day 1 = 0001-01-01)
DaysBeforeYear(year) ==
    (year - 1) * 365 + (year - 1) \div 4 - (year - 1) \div 100 + (year - 1) \div 400

RECURSIVE DaysBeforeMonth(_, _)
DaysBeforeMonth(year, month) ==
    IF month = 1 THEN 0
    ELSE DaysBeforeMonth(year, month - 1) + DaysInMonth(year, month - 1)

\* date.toordinal()
ToOrdinal(year, month, day) == DaysBeforeYear(year) + DaysBeforeMonth(year, month) + day

YearOfOrdinal(n) ==
    CHOOSE y \in (n \div 366)..(n \div 365 + 1) :
        DaysBeforeYear(y) < n /\ n <= DaysBeforeYear(y + 1)

MonthOfOrdinal(n, y) ==
    CHOOSE m \in 1..12 :
        /\ DaysBeforeYear(y) + DaysBeforeMonth(y, m) < n
        /\ n <= DaysBeforeYear(y) + DaysBeforeMonth(y, m) + DaysInMonth(y, m)

DateInMonth(n, y, m) == <<y, m, n - DaysBeforeYear(y) - DaysBeforeMonth(y, m)>>

DateInYear(n, y) == DateInMonth(n, y, MonthOfOrdinal(n, y))

\* date.fromordinal()
FromOrdinal(n) == DateInYear(n, YearOfOrdinal(n))

\* date.weekday() of an ordinal: Monday is 0, Sunday is 6
Weekday(n) == (n + 6) % 7

\* the first Sunday of the month on or after the given day
SundayFrom(year, month, day) ==
    CHOOSE d \in day..(day + 6) : Weekday(ToOrdinal(year, month, d)) = 6

\* wall-clock minutes since the start of ordinal day 0
WallMinutes(dt) == ToOrdinal(dt.year, dt.month, dt.day) * 1440 + dt.hour * 60 + dt.minute

\* America/Los_Angeles: daylight time starts on the second Sunday of March at
\* 02:00 standard time and ends on the first Sunday of November at 02:00
\* daylight time (wall-clock minutes of the two transitions)
DstStartWall(year) == ToOrdinal(year, 3, SundayFrom(year, 3, 8)) * 1440 + 120
DstEndWall(year) == ToOrdinal(year, 11, SundayFrom(year, 11, 1)) * 1440 + 120

PST == 0 - 480
PDT == 0 - 420

\* utcoffset() of a wall-clock time in PACIFIC_TZ: in the skipped hour fold 0
\* reads the offset before the transition, in the repeated hour fold 0 is
\* the first pass (daylight time) and fold 1 the second (standard time)
PacificOffsetAt(w, fold, start, end) ==
    IF w < start THEN PST
    ELSE IF w < start + 60 THEN (IF fold = 0 THEN PST ELSE PDT)
    ELSE IF w < end - 60 THEN PDT
    ELSE IF w < end THEN (IF fold = 0 THEN PDT ELSE PST)
    ELSE PST

UtcOffset(dt) ==
    PacificOffsetAt(WallMinutes(dt), dt.fold, DstStartWall(dt.year), DstEndWall(dt.year))

\* the offset PACIFIC_TZ has at an instant given in UTC minutes
PacificOffsetUtc(u, start, end) ==
    IF u >= start - PST /\ u < end - PDT THEN PDT ELSE PST

DateTime(tzinfo, date, hour, minute, second, fold) ==
    [tzinfo |-> tzinfo, year |-> date[1], month |-> date[2], day |-> date[3],
     hour |-> hour, minute |-> minute, second |-> second, fold |-> fold]

\* the PACIFIC_TZ datetime whose wall clock reads w minutes
PacificAt(w, second, fold) ==
    DateTime(PACIFIC_TZ, FromOrdinal(w \div 1440), (w % 1440) \div 60, w % 60, second, fold)

AsPacificOff(u, off, second, end) ==
    PacificAt(u + off, second,
              IF off = PST /\ u + off >= end - 60 /\ u + off < end THEN 1 ELSE 0)

AsPacificUtc(u, second, start, end) ==
    AsPacificOff(u, PacificOffsetUtc(u, start, end), second, end)

\* datetime.astimezone(PACIFIC_TZ) of an aware datetime of another zone
AsTimezonePacific(dt) ==
    AsPacificUtc(WallMinutes(dt) - FixedOffset(dt.tzinfo), dt.second,
                 DstStartWall(dt.year), DstEndWall(dt.year))

\* "Convert to Pacific time if not already"
ToPacific(base_date) ==
    IF base_date.tzinfo = "none" THEN [base_date EXCEPT !.tzinfo = PACIFIC_TZ]
    ELSE IF base_date.tzinfo # PACIFIC_TZ THEN AsTimezonePacific(base_date)
    ELSE base_date

\* datetime.date()
DateOf(dt) == <<dt.year, dt.month, dt.day>>

\* dt - timedelta(days=1): the wall clock of the same zone one day earlier
MinusOneDay(dt) == FromOrdinal(ToOrdinal(dt.year, dt.month, dt.day) - 1)

\* the decimal digits of a natural number
RECURSIVE DigitsOf(_)
DigitsOf(n) ==
    IF n < 10 THEN <<DigitChars[n + 1]>>
    ELSE Append(DigitsOf(n \div 10), DigitChars[(n % 10) + 1])

RECURSIVE ZeroFill(_, _)
ZeroFill(s, width) == IF Len(s) >= width THEN s ELSE ZeroFill(<<"0">> \o s, width)

\* f"{n:0{width}d}"
Pad(n, width) == ZeroFill(DigitsOf(n), width)

-----------------------------------------------------------------------------
(* parseDate *)

Yesterday == <<"y","e","s","t","e","r","d","a","y">>
Today == <<"t","o","d","a","y">>

\* \d{4}-\d{2}-\d{2} at position i of s
IsoAt(s, i) ==
    /\ i >= 1 /\ i + 9 <= Len(s)
    /\ \A k \in {0, 1, 2, 3, 5, 6, 8, 9} : s[i + k] \in Digits
    /\ s[i + 4] = "-" /\ s[i + 7] = "-"

\* ^(\d{4})-(\d{2})-(\d{2})$ ; `$` also matches just before a final newline
IsIsoDate(s) ==
    /\ Len(s) = 10 \/ (Len(s) = 11 /\ s[11] = "\n")
    /\ IsoAt(s, 1)

\* (date_obj, year_str, month_str, day_str)
DateInfo(date_obj, year, month, day) ==
    Ok([date_obj |-> date_obj, year |-> year, month |-> month, day |-> day])

\* the calendar date d with its zero-padded components
DateInfoOf(d) == DateInfo(d, Pad(d[1], 4), Pad(d[2], 2), Pad(d[3], 2))

\* a variant that does not step back one day for 'yesterday'
parseDateToken_YesterdayIsToday(date_str, lower, base_date) ==
    IF lower = Yesterday THEN DateInfoOf(DateOf(base_date))
    ELSE IF lower = Today THEN DateInfoOf(DateOf(base_date))
    ELSE IF IsIsoDate(date_str)
    THEN DateInfo(DateOf(base_date), Slice(date_str, 1, 4), Slice(date_str, 6, 7),
                  Slice(date_str, 9, 10))
    ELSE Fail("InvalidDate", date_str)

parseDateToken(date_str, lower, base_date) ==
    IF lower = Yesterday THEN DateInfoOf(MinusOneDay(base_date))
    ELSE IF lower = Today THEN DateInfoOf(DateOf(base_date))
    ELSE IF IsIsoDate(date_str)
    THEN DateInfo(DateOf(base_date), Slice(date_str, 1, 4), Slice(date_str, 6, 7),
                  Slice(date_str, 9, 10))
    ELSE Fail("InvalidDate", date_str)

\* parseDate once base_date is a Pacific datetime
parseDatePacific(date_str, base_date) ==
    IF date_str = None \/ date_str = Some(<<>>) THEN DateInfoOf(DateOf(base_date))
    ELSE parseDateToken(date_str[1], Strip(Lower(date_str[1])), base_date)

\* parseDate; now is what datetime.now(PACIFIC_TZ) reads when base_date is None
parseDate(date_str, base_date, now) ==
    parseDatePacific(date_str, ToPacific(IF base_date = None THEN now ELSE base_date[1]))
-----------------------------------------------------------------------------
(* parseCardioWorkout *)

\* s reads lit at position i, letter case ignored
HasAt(s, i, lit) ==
    /\ i >= 1 /\ i + Len(lit) - 1 <= Len(s)
    /\ Lower(Slice(s, i, i + Len(lit) - 1)) = lit

\* e moved past an optional literal that follows position e
OptAfter(s, e, lit) == IF HasAt(s, e + 1, lit) THEN e + Len(lit) ELSE e

\* last index of the fraction, if any, after the digits that end at j
FractionEnd(s, j) ==
    IF j + 2 <= Len(s) /\ s[j+1] = "." /\ s[j+2] \in Digits
    THEN DigitRunEnd(s, j + 2) ELSE j

\* last index of the number \d+(?:\.\d+)? that starts at the digit s[i]
NumberEnd(s, i) == FractionEnd(s, DigitRunEnd(s, i))

\* \s* : the first position at or after i that is not whitespace
SkipSpace(s, i) ==
    CHOOSE k \in i..(Len(s) + 1) :
        /\ \A j \in i..(k - 1) : s[j] \in Whitespace
        /\ (k = Len(s) + 1 \/ s[k] \notin Whitespace)

\* the unit words of the four numeric patterns, matched at position p; the
\* last index of the match, 0 when the words are not there
UnitEnd(kind, s, p) ==
    IF kind = "min"
    THEN (IF HasAt(s, p, <<"m","i","n">>)
          THEN OptAfter(s, OptAfter(s, p + 2, <<"u","t","e">>), <<"s">>) ELSE 0)
    ELSE IF kind = "mph"
    THEN (IF HasAt(s, p, <<"m","p","h">>) THEN p + 2 ELSE 0)
    ELSE IF kind = "degree"
    THEN (IF HasAt(s, p, <<"d","e","g","r","e","e">>) /\ HasAt(s, SkipSpace(s, p + 6), <<"i","n","c","l","i","n","e">>)
          THEN SkipSpace(s, p + 6) + 6 ELSE 0)
    ELSE (IF HasAt(s, p, <<"m","i","l","e">>) THEN OptAfter(s, p + 3, <<"s">>) ELSE 0)

\* incline\s*(\d+(?:\.\d+)?) with the number expected at position p
InclineNumberEnd(s, p) == IF p <= Len(s) /\ s[p] \in Digits THEN NumberEnd(s, p) ELSE 0

\* last index of the match of the pattern that starts at position i, 0 when
\* the pattern does not match there:
\*   min     (\d+(?:\.\d+)?)\s*min(?:ute)?s?
\*   mph     (\d+(?:\.\d+)?)\s*mph
\*   degree  (\d+(?:\.\d+)?)\s*degree\s*incline
\*   incline incline\s*(\d+(?:\.\d+)?)
\*   mile    (\d+(?:\.\d+)?)\s*miles?
MatchEnd(kind, s, i) ==
    IF kind = "incline"
    THEN (IF HasAt(s, i, <<"i","n","c","l","i","n","e">>) THEN InclineNumberEnd(s, SkipSpace(s, i + 7)) ELSE 0)
    ELSE IF s[i] \in Digits THEN UnitEnd(kind, s, SkipSpace(s, NumberEnd(s, i) + 1))
    ELSE 0

\* re.search: the first position at or after i where one of the patterns
\* matches, 0 when none does
RECURSIVE Search(_, _, _)
Search(kinds, s, i) ==
    IF i > Len(s) THEN 0
    ELSE IF \E kind \in kinds : MatchEnd(kind, s, i) > 0 THEN i
    ELSE Search(kinds, s, i + 1)

\* float(group) of the number that starts at position i
NumberAt(s, i) == Float(Slice(s, i, NumberEnd(s, i)))

\* the group of a numeric pattern found at position i (0: no match)
GroupAt(s, i) == IF i = 0 THEN None ELSE Some(NumberAt(s, i))

\* group(1) or group(2) of the incline pattern found at position i
InclineGroupAt(s, i) ==
    IF i = 0 THEN None
    ELSE IF s[i] \in Digits THEN Some(NumberAt(s, i))
    ELSE Some(NumberAt(s, SkipSpace(s, i + 7)))

\* re.sub(pattern, '', s, flags=IGNORECASE)
RECURSIVE Remove(_, _)
Remove(kind, s) ==
    IF Len(s) = 0 THEN <<>>
    ELSE IF MatchEnd(kind, s, 1) > 0
    THEN Remove(kind, Slice(s, MatchEnd(kind, s, 1) + 1, Len(s)))
    ELSE <<s[1]>> \o Remove(kind, Tail(s))

\* re.sub(r'[,\s]+', ' ', s)
RECURSIVE Collapse(_)
Collapse(s) ==
    IF Len(s) = 0 THEN <<>>
    ELSE IF s[1] \in Whitespace \cup {","}
    THEN (IF Len(s) > 1 /\ s[2] \in Whitespace \cup {","}
          THEN Collapse(Tail(s)) ELSE <<" ">> \o Collapse(Tail(s)))
    ELSE <<s[1]>> \o Collapse(Tail(s))

\* the text that is left once every extracted value is removed
CardioNotes(rest) ==
    Strip(Collapse(Remove("mile", Remove("incline", Remove("degree",
        Remove("mph", Remove("min", rest)))))))

\* the record dict: absent keys are None or, for notes, the empty text
CardioRecord(iso_ts, exercise_norm, duration_min, speed_mph, incline_percent, distance_miles, notes) ==
    [ts |-> iso_ts, type |-> Some("cardio"), modality |-> exercise_norm,
     duration_min |-> duration_min, speed_mph |-> speed_mph,
     incline_percent |-> incline_percent, distance_miles |-> distance_miles,
     notes |-> notes]

CardioOf_InclineWordFirst(exercise_norm, rest, iso_ts, lower_rest) ==
    Ok(CardioRecord(iso_ts, exercise_norm,
                    GroupAt(lower_rest, Search({"min"}, lower_rest, 1)),
                    GroupAt(lower_rest, Search({"mph"}, lower_rest, 1)),
                    InclineGroupAt(lower_rest, Search({"incline"}, lower_rest, 1)),
                    GroupAt(lower_rest, Search({"mile"}, lower_rest, 1)),
                    CardioNotes(rest)))

CardioOf(exercise_norm, rest, iso_ts, lower_rest) ==
    Ok(CardioRecord(iso_ts, exercise_norm,
                    GroupAt(lower_rest, Search({"min"}, lower_rest, 1)),
                    GroupAt(lower_rest, Search({"mph"}, lower_rest, 1)),
                    InclineGroupAt(lower_rest, Search({"degree", "incline"}, lower_rest, 1)),
                    GroupAt(lower_rest, Search({"mile"}, lower_rest, 1)),
                    CardioNotes(rest)))

parseCardioWorkout(exercise_norm, rest, iso_ts) ==
    CardioOf(exercise_norm, rest, iso_ts, Lower(rest))
-----------------------------------------------------------------------------
(* parseWorkoutLog *)

LogPrefix == <<"/","l","o","g"," ">>
NotePrefix == <<"/","n","o","t","e"," ">>

\* str.startswith
StartsWith(s, prefix) == Len(s) >= Len(prefix) /\ SubSeq(s, 1, Len(prefix)) = prefix

\* length of the token (yesterday|today|\d{4}-\d{2}-\d{2}) that content starts
\* with, letter case ignored; 0 when it starts with none
StartTokenLen(content) ==
    IF HasAt(content, 1, Yesterday) THEN Len(Yesterday)
    ELSE IF HasAt(content, 1, Today) THEN Len(Today)
    ELSE IF IsoAt(content, 1) THEN 10
    ELSE 0

\* (?:\s*:\s*|\s+) after a token that ends at t, q being the first position
\* after the whitespace that follows the token: last index of the separator,
\* 0 when there is none
SeparatorEnd(content, t, q) ==
    IF q <= Len(content) /\ content[q] = ":" THEN SkipSpace(content, q + 1) - 1
    ELSE IF q > t + 1 THEN q - 1
    ELSE 0

\* last index of the match of the start pattern, 0 when it does not match
StartMatchEnd(content, t) ==
    IF t = 0 THEN 0 ELSE SeparatorEnd(content, t, SkipSpace(content, t + 1))

\* \s+(\d{4}-\d{2}-\d{2})\s*$ with the date at position i
EndDateAt(content, i) ==
    /\ i >= 2 /\ content[i - 1] \in Whitespace
    /\ IsoAt(content, i)
    /\ SkipSpace(content, i + 10) = Len(content) + 1

\* position of the date of the end pattern, 0 when it does not match
EndDatePos(content) ==
    IF \E i \in 1..Len(content) : EndDateAt(content, i)
    THEN CHOOSE i \in 1..Len(content) : EndDateAt(content, i)
    ELSE 0

\* the positions where sub occurs in s
Occurrences(s, sub) ==
    {j \in 1..(Len(s) - Len(sub) + 1) : Slice(s, j, j + Len(sub) - 1) = sub}

\* str.rfind(sub) as a 1-based position (sub occurs in s)
RFind(s, sub) == CHOOSE j \in Occurrences(s, sub) : \A k \in Occurrences(s, sub) : k <= j

\* strftime('%z') of an offset given in minutes
StrftimeZ(off) ==
    (IF off < 0 THEN <<"-">> ELSE <<"+">>)
        \o Pad((IF off < 0 THEN 0 - off ELSE off) \div 60, 2)
        \o Pad((IF off < 0 THEN 0 - off ELSE off) % 60, 2)

\* f"{offset[:3]}:{offset[3:]}"
OffsetFormatted(offset) == Slice(offset, 1, 3) \o <<":">> \o Slice(offset, 4, Len(offset))

\* f"{year}-{month}-{day}"
DateString(year, month, day) == year \o <<"-">> \o month \o <<"-">> \o day

\* f"{year}-{month}-{day}T{h}:{m}:{s}{offset_formatted}" for the Pacific now
IsoTimestamp(year, month, day, now) ==
    DateString(year, month, day) \o <<"T">>
        \o Pad(now.hour, 2) \o <<":">> \o Pad(now.minute, 2) \o <<":">> \o Pad(now.second, 2)
        \o OffsetFormatted(StrftimeZ(UtcOffset(now)))

\* a variant whose notes are the whole message
NoteRecord_RawAsNotes(iso_ts, notes, source, raw) ==
    [ts |-> iso_ts, type |-> Some("note"), notes |-> raw, source |-> source, raw |-> raw]

\* the note record
NoteRecord(iso_ts, notes, source, raw) ==
    [ts |-> iso_ts, type |-> Some("note"), notes |-> notes, source |-> source, raw |-> raw]

\* record['source'] = source; record['raw'] = message
WithSource(record, source, raw) ==
    [k \in DOMAIN record \cup {"source", "raw"} |->
        IF k = "source" THEN source ELSE IF k = "raw" THEN raw ELSE record[k]]

\* (record, date string), or the error the parser of the exercise raised
LogReturn(message, source, date_string, r) ==
    IF r.error # "none" THEN r
    ELSE Ok([record |-> WithSource(r.value, source, message), date |-> date_string])

\* a variant that sends the machine exercises to the cardio parser
Dispatch_MachineAsCardio(exercise_norm, exercise_type, rest, iso_ts) ==
    IF exercise_type \in {Some("cardio"), Some("machine")}
    THEN parseCardioWorkout(exercise_norm, rest, iso_ts)
    ELSE IF exercise_type \in {Some("strength"), Some("bodyweight")}
    THEN parseStrengthWorkout(exercise_norm, rest, iso_ts)
    ELSE Fail("UnknownExerciseType", exercise_norm)

\* the parser of the exercise's category
Dispatch(exercise_norm, exercise_type, rest, iso_ts) ==
    IF exercise_type = Some("cardio") THEN parseCardioWorkout(exercise_norm, rest, iso_ts)
    ELSE IF exercise_type \in {Some("strength"), Some("machine"), Some("bodyweight")}
    THEN parseStrengthWorkout(exercise_norm, rest, iso_ts)
    ELSE Fail("UnknownExerciseType", exercise_norm)

\* the candidate phrase of the first n words and what it normalizes to
Candidate(words, n) ==
    [exercise_name |-> Join(SubSeq(words, 1, n)),
     exercise_norm |-> normalizeExercise(Join(SubSeq(words, 1, n))),
     words_consumed |-> n]

\* a variant that stops at two words
LookupExercise_TwoWords(words) ==
    IF Len(words) = 1 \/ normalizeExercise(words[1]) # None THEN Candidate(words, 1)
    ELSE Candidate(words, 2)

\* one word, then two, then three
LookupExercise(words) ==
    IF Len(words) = 1 \/ normalizeExercise(words[1]) # None THEN Candidate(words, 1)
    ELSE IF Len(words) = 2 \/ normalizeExercise(Join(SubSeq(words, 1, 2))) # None
    THEN Candidate(words, 2)
    ELSE Candidate(words, 3)

LogExercise(message, source, iso_ts, date_string, words, x) ==
    IF x.exercise_norm = None THEN Fail("UnknownExercise", x.exercise_name)
    ELSE LogReturn(message, source, date_string,
                   Dispatch(x.exercise_norm[1], getExerciseType(x.exercise_norm[1]),
                            Join(SubSeq(words, x.words_consumed + 1, Len(words))), iso_ts))

\* a variant that reports an entry without words as an unknown exercise
LogWords_EmptyIsUnknown(message, source, iso_ts, date_string, words) ==
    IF Len(words) = 0 THEN Fail("UnknownExercise", <<>>)
    ELSE LogExercise(message, source, iso_ts, date_string, words, LookupExercise(words))

LogWords(message, source, iso_ts, date_string, words) ==
    IF Len(words) = 0 THEN Fail("NoExercise", <<>>)
    ELSE LogExercise(message, source, iso_ts, date_string, words, LookupExercise(words))

LogStamped(message, source, is_note, log_content, iso_ts, date_string) ==
    IF is_note
    THEN Ok([record |-> NoteRecord(iso_ts, Strip(log_content), source, message),
             date |-> date_string])
    ELSE LogWords(message, source, iso_ts, date_string, Split(log_content))

\* a variant whose timestamp carries the offset without the colon
LogResolved_PlainOffset(message, source, is_note, log_content, now, date_info) ==
    IF date_info.error # "none" THEN date_info
    ELSE LogStamped(message, source, is_note, log_content,
                    DateString(date_info.value.year, date_info.value.month,
                               date_info.value.day) \o <<"T">>
                        \o Pad(now.hour, 2) \o <<":">> \o Pad(now.minute, 2)
                        \o <<":">> \o Pad(now.second, 2) \o StrftimeZ(UtcOffset(now)),
                    DateString(date_info.value.year, date_info.value.month,
                               date_info.value.day))

\* the timestamp from the resolved date and the Pacific now
LogResolved(message, source, is_note, log_content, now, date_info) ==
    IF date_info.error # "none" THEN date_info
    ELSE LogStamped(message, source, is_note, log_content,
                    IsoTimestamp(date_info.value.year, date_info.value.month,
                                 date_info.value.day, now),
                    DateString(date_info.value.year, date_info.value.month,
                               date_info.value.day))

\* the date is parsed against now, and now is converted to Pacific time
LogDated(message, source, is_note, date_str, log_content, now) ==
    LogResolved(message, source, is_note, log_content, ToPacific(now),
                parseDate(date_str, Some(now), now))

\* a variant that also looks for a date at the end of a note
LogContent_EndDateInNotes(message, source, is_note, content, now, e) ==
    IF e > 0
    THEN LogDated(message, source, is_note, Some(Slice(content, 1, StartTokenLen(content))),
                  Slice(content, e + 1, Len(content)), now)
    ELSE IF EndDatePos(content) > 0
    THEN LogDated(message, source, is_note,
                  Some(Slice(content, EndDatePos(content), EndDatePos(content) + 9)),
                  Strip(Slice(content, 1,
                        RFind(content, Slice(content, EndDatePos(content),
                                             EndDatePos(content) + 9)) - 1)),
                  now)
    ELSE LogDated(message, source, is_note, None, content, now)

\* the date modifier at the start (its match ends at e) or, for /log, at the end
LogContent(message, source, is_note, content, now, e) ==
    IF e > 0
    THEN LogDated(message, source, is_note, Some(Slice(content, 1, StartTokenLen(content))),
                  Slice(content, e + 1, Len(content)), now)
    ELSE IF ~is_note /\ EndDatePos(content) > 0
    THEN LogDated(message, source, is_note,
                  Some(Slice(content, EndDatePos(content), EndDatePos(content) + 9)),
                  Strip(Slice(content, 1,
                        RFind(content, Slice(content, EndDatePos(content),
                                             EndDatePos(content) + 9)) - 1)),
                  now)
    ELSE LogDated(message, source, is_note, None, content, now)

LogPrefixed(message, source, is_note, content, now) ==
    LogContent(message, source, is_note, content, now,
               StartMatchEnd(content, StartTokenLen(content)))

\* parseWorkoutLog; clock is what datetime.now(PACIFIC_TZ) reads when no
\* timestamp is given
parseWorkoutLog(message, timestamp, source, clock) ==
    IF ~StartsWith(message, LogPrefix) /\ ~StartsWith(message, NotePrefix)
    THEN Fail("MissingPrefix", <<>>)
    ELSE LogPrefixed(message, source, StartsWith(message, NotePrefix),
                     Strip(Slice(message,
                                 (IF StartsWith(message, LogPrefix) THEN 5 ELSE 6) + 1,
                                 Len(message))),
                     IF timestamp = None THEN clock ELSE timestamp[1])
-----------------------------------------------------------------------------
(* writer.py: writeWorkoutLog.  A path is the sequence of its components;   *)
(* the file system is the set of directories and the text of every file;    *)
(* the repository is the sequence of its commits.                            *)

\* Path.home() / 'repos' / 'fitness' / 'db'
DefaultDbDir == <<<<"~">>, <<"r","e","p","o","s">>, <<"f","i","t","n","e","s","s">>, <<"d","b">>>>

\* db_dir / year / month / f'{day}.jsonl'
FilePath(db_dir, year, month, day) == db_dir \o <<year, month, day \o <<".","j","s","o","n","l">>>>

\* json.dumps of one character of a string
JsonChar(c) ==
    IF c = "\"" THEN <<"\\", "\"">>
    ELSE IF c = "\\" THEN <<"\\", "\\">>
    ELSE IF c = "\n" THEN <<"\\", "n">>
    ELSE IF c = "\t" THEN <<"\\", "t">>
    ELSE <<c>>

\* json.dumps of a string
RECURSIVE JsonChars(_)
JsonChars(s) == IF Len(s) = 0 THEN <<>> ELSE JsonChar(s[1]) \o JsonChars(Tail(s))

JsonString(s) == <<"\"">> \o JsonChars(s) \o <<"\"">>

\* repr of a float <<m, e>> below 10^16: integer part, point, fraction
FloatText(f) ==
    DigitsOf(f[1] \div Pow10(f[2])) \o <<".">>
    \o (IF f[2] = 0 THEN <<"0">> ELSE ZeroFill(DigitsOf(f[1] % Pow10(f[2])), f[2]))

\* json.dumps of a dict, given as the sequence of its items <<key, value>>.
\* A value is a string [str |-> s], a non-negative integer [int |-> n], a
\* float [float |-> f], a boolean [bool |-> b] or a list of dicts
\* [list |-> l]
RECURSIVE JsonDumps(_)
RECURSIVE JsonList(_)
JsonList(l) ==
    IF Len(l) = 0 THEN <<>>
    ELSE JsonDumps(l[1]) \o (IF Len(l) > 1 THEN <<",", " ">> ELSE <<>>) \o JsonList(Tail(l))

JsonValue(v) ==
    IF "str" \in DOMAIN v THEN JsonString(v.str)
    ELSE IF "int" \in DOMAIN v THEN DigitsOf(v.int)
    ELSE IF "float" \in DOMAIN v THEN FloatText(v.float)
    ELSE IF "bool" \in DOMAIN v THEN (IF v.bool THEN <<"t","r","u","e">> ELSE <<"f","a","l","s","e">>)
    ELSE <<"[">> \o JsonList(v.list) \o <<"]">>

RECURSIVE JsonItems(_)
JsonItems(items) ==
    IF Len(items) = 0 THEN <<>>
    ELSE JsonString(items[1][1]) \o <<":", " ">> \o JsonValue(items[1][2])
         \o (IF Len(items) > 1 THEN <<",", " ">> ELSE <<>>) \o JsonItems(Tail(items))

JsonDumps(record) == <<"{">> \o JsonItems(record) \o <<"}">>

\* filepath.parent.mkdir(parents=True, exist_ok=True)
Mkdir(dirs, parent) == dirs \cup {SubSeq(parent, 1, n) : n \in 1..Len(parent)}

\* a variant that opens the file for writing instead of appending
AppendText_Truncating(files, filepath, text) ==
    [p \in DOMAIN files \cup {filepath} |-> IF p = filepath THEN text ELSE files[p]]

\* with open(filepath, 'a') as f: f.write(text)
AppendText(files, filepath, text) ==
    [p \in DOMAIN files \cup {filepath} |->
        IF p # filepath THEN files[p]
        ELSE IF p \in DOMAIN files THEN files[p] \o text
        ELSE text]

\* record.get(key): Some(value), or None when the record has no such key
Get(record, key) ==
    IF \E i \in 1..Len(record) : record[i][1] = key
    THEN Some(record[CHOOSE i \in 1..Len(record) : record[i][1] = key][2])
    ELSE None

\* truth value of record.get(key): a missing key, an empty string, the
\* numbers 0 and 0.0 and an empty list are false
Truthy(got) ==
    /\ got # None
    /\ "str" \in DOMAIN got[1] => got[1].str # <<>>
    /\ "int" \in DOMAIN got[1] => got[1].int # 0
    /\ "float" \in DOMAIN got[1] => got[1].float[1] # 0
    /\ "list" \in DOMAIN got[1] => got[1].list # <<>>

\* if len(text) > 65: text = text[:65] + '...', then the prefix is put in front
Truncated(text, prefix) ==
    IF Len(text) > 65 THEN prefix \o SubSeq(text, 1, 65) \o <<".",".",".">> ELSE prefix \o text

\* record.get('exercise') or record.get('modality', 'workout')
ExerciseOrModality(record) ==
    IF Truthy(Get(record, <<"e","x","e","r","c","i","s","e">>)) THEN Get(record, <<"e","x","e","r","c","i","s","e">>)[1].str
    ELSE IF Get(record, <<"m","o","d","a","l","i","t","y">>) # None THEN Get(record, <<"m","o","d","a","l","i","t","y">>)[1].str
    ELSE <<"w","o","r","k","o","u","t">>

\* every set has the weight and the reps of the first one
AllSame(sets) ==
    \A i \in 1..Len(sets) : /\ Get(sets[i], <<"w","e","i","g","h","t">>) = Get(sets[1], <<"w","e","i","g","h","t">>)
                            /\ Get(sets[i], <<"r","e","p","s">>) = Get(sets[1], <<"r","e","p","s">>)

\* f"{int(first_set['weight'])}" and f"{first_set['reps']}"
WeightText(first_set) == DigitsOf(IntOfFloat(Get(first_set, <<"w","e","i","g","h","t">>)[1].float))
RepsText(first_set) == DigitsOf(Get(first_set, <<"r","e","p","s">>)[1].int)

\* the summary of the sets: weight x count x reps, count x reps, weight x
\* reps, reps, or the number of sets; a weight of 0 counts as no weight
SetsSummary(sets) ==
    IF AllSame(sets) /\ Len(sets) > 1
    THEN IF Truthy(Get(sets[1], <<"w","e","i","g","h","t">>))
         THEN WeightText(sets[1]) \o <<"x">> \o DigitsOf(Len(sets)) \o <<"x">> \o RepsText(sets[1])
         ELSE DigitsOf(Len(sets)) \o <<"x">> \o RepsText(sets[1])
    ELSE IF Len(sets) = 1
    THEN IF Truthy(Get(sets[1], <<"w","e","i","g","h","t">>)) THEN WeightText(sets[1]) \o <<"x">> \o RepsText(sets[1])
         ELSE RepsText(sets[1])
    ELSE DigitsOf(Len(sets)) \o <<" ","s","e","t","s">>

\* the parts of the workout summary: exercise, sets, rpe
SummaryParts(record) ==
    <<ExerciseOrModality(record)>>
    \o (IF Truthy(Get(record, <<"s","e","t","s">>)) THEN <<SetsSummary(Get(record, <<"s","e","t","s">>)[1].list)>> ELSE <<>>)
    \o (IF Truthy(Get(record, <<"r","p","e">>)) THEN <<<<"r","p","e">> \o DigitsOf(Get(record, <<"r","p","e">>)[1].int)>> ELSE <<>>)

\* record.get('notes', '').strip()
NotesText(record) ==
    IF Get(record, <<"n","o","t","e","s">>) = None THEN <<>> ELSE Strip(Get(record, <<"n","o","t","e","s">>)[1].str)

formatCommitMessage(record) ==
    IF Get(record, <<"t","y","p","e">>) = Some([str |-> <<"n","o","t","e">>])
    THEN Truncated(NotesText(record), <<"n","o","t","e",":"," ">>)
    ELSE Truncated(Join(SummaryParts(record)), <<"w","o","r","k","o","u","t",":"," ">>)

\* origin.push(): every commit of the branch reaches the remote
Pushed(commits) == [i \in 1..Len(commits) |-> [commits[i] EXCEPT !.pushed = TRUE]]

\* commitWorkout; git is what the repository does: "no_repo" (filepath is in
\* no repository), "commit_fails", "push_fails" or "ok".  Every failure is
\* raised as RuntimeError.
commitWorkout(commits, filepath, record, auto_push, git) ==
    IF git \in {"no_repo", "commit_fails"} THEN [commits |-> commits, error |-> "RuntimeError"]
    ELSE IF ~auto_push
    THEN [commits |-> Append(commits, [file |-> filepath, message |-> formatCommitMessage(record), pushed |-> FALSE]),
          error |-> "none"]
    ELSE IF git = "push_fails"
    THEN [commits |-> Append(commits, [file |-> filepath, message |-> formatCommitMessage(record), pushed |-> FALSE]),
          error |-> "RuntimeError"]
    ELSE [commits |-> Pushed(Append(commits, [file |-> filepath,
                                               message |-> formatCommitMessage(record),
                                               pushed |-> FALSE])),
          error |-> "none"]

\* the file is written, then committed when auto_commit and GIT_AVAILABLE;
\* the RuntimeError of commitWorkout is caught and dropped
WriteFile(files, commits, record, filepath, auto_commit, auto_push, git) ==
    [result |-> Ok(filepath),
     fs |-> [dirs |-> Mkdir(files.dirs, SubSeq(filepath, 1, Len(filepath) - 1)),
             files |-> AppendText(files.files, filepath, JsonDumps(record) \o <<"\n">>)],
     repo |-> IF auto_commit /\ git # "unavailable"
              THEN commitWorkout(commits, filepath, record, auto_push, git).commits
              ELSE commits]

\* writeWorkoutLog from the point where the date is split: parts is
\* date.split('-'), and unpacking it into year, month, day raises ValueError
\* unless it has three pieces
WriteParts(files, commits, record, parts, db_dir, dry_run, auto_commit, auto_push, git) ==
    IF Len(parts) # 3 THEN [result |-> Fail("ValueError", <<>>), fs |-> files, repo |-> commits]
    ELSE IF dry_run
    THEN [result |-> Ok(FilePath(db_dir, parts[1], parts[2], parts[3])),
          fs |-> files, repo |-> commits]
    ELSE WriteFile(files, commits, record, FilePath(db_dir, parts[1], parts[2], parts[3]),
                   auto_commit, auto_push, git)

\* writeWorkoutLog: what it returns or raises, and the file system and the
\* repository it leaves
writeWorkoutLog(files, commits, record, date, db_dir, dry_run, auto_commit, auto_push, git) ==
    WriteParts(files, commits, record, SplitOn(date, "-"),
               IF db_dir = None THEN DefaultDbDir ELSE db_dir[1],
               dry_run, auto_commit, auto_push, git)
-----------------------------------------------------------------------------
(* cli.py: the log and note commands.  The record the parser returns is     *)
(* handed to the writer: the parser's record becomes the sequence of the    *)
(* items of the dict, in insertion order.  A printed line is the stream it  *)
(* goes to, its text without the leading symbol, and the error it reports.  *)

\* the characters of the keys, categories, identifiers and sources
Spelling ==
    {<<"ts", <<"t","s">>>>, <<"type", <<"t","y","p","e">>>>, <<"exercise", <<"e","x","e","r","c","i","s","e">>>>,
     <<"modality", <<"m","o","d","a","l","i","t","y">>>>, <<"unit", <<"u","n","i","t">>>>, <<"sets", <<"s","e","t","s">>>>,
     <<"duration_min", <<"d","u","r","a","t","i","o","n","_","m","i","n">>>>, <<"speed_mph", <<"s","p","e","e","d","_","m","p","h">>>>,
     <<"incline_percent", <<"i","n","c","l","i","n","e","_","p","e","r","c","e","n","t">>>>, <<"distance_miles", <<"d","i","s","t","a","n","c","e","_","m","i","l","e","s">>>>,
     <<"rpe", <<"r","p","e">>>>, <<"notes", <<"n","o","t","e","s">>>>, <<"source", <<"s","o","u","r","c","e">>>>, <<"raw", <<"r","a","w">>>>,
     <<"lb", <<"l","b">>>>, <<"cli", <<"c","l","i">>>>, <<"telegram", <<"t","e","l","e","g","r","a","m">>>>,
     <<"strength", <<"s","t","r","e","n","g","t","h">>>>, <<"bodyweight", <<"b","o","d","y","w","e","i","g","h","t">>>>, <<"machine", <<"m","a","c","h","i","n","e">>>>,
     <<"cardio", <<"c","a","r","d","i","o">>>>, <<"note", <<"n","o","t","e">>>>,
     <<"squat", <<"s","q","u","a","t">>>>, <<"bench_press", <<"b","e","n","c","h","_","p","r","e","s","s">>>>, <<"deadlift", <<"d","e","a","d","l","i","f","t">>>>,
     <<"ohp", <<"o","h","p">>>>, <<"barbell_row", <<"b","a","r","b","e","l","l","_","r","o","w">>>>, <<"incline_row", <<"i","n","c","l","i","n","e","_","r","o","w">>>>,
     <<"weighted_dip", <<"w","e","i","g","h","t","e","d","_","d","i","p">>>>, <<"dumbbell_bench_press", <<"d","u","m","b","b","e","l","l","_","b","e","n","c","h","_","p","r","e","s","s">>>>,
     <<"shrug", <<"s","h","r","u","g">>>>, <<"dip", <<"d","i","p">>>>, <<"chin_up", <<"c","h","i","n","_","u","p">>>>,
     <<"weighted_chin_up", <<"w","e","i","g","h","t","e","d","_","c","h","i","n","_","u","p">>>>, <<"pull_up", <<"p","u","l","l","_","u","p">>>>,
     <<"weighted_pull_up", <<"w","e","i","g","h","t","e","d","_","p","u","l","l","_","u","p">>>>, <<"dragon_flag", <<"d","r","a","g","o","n","_","f","l","a","g">>>>,
     <<"chest_press_machine", <<"c","h","e","s","t","_","p","r","e","s","s","_","m","a","c","h","i","n","e">>>>,
     <<"tricep_dip_machine", <<"t","r","i","c","e","p","_","d","i","p","_","m","a","c","h","i","n","e">>>>, <<"ab_crunch", <<"a","b","_","c","r","u","n","c","h">>>>,
     <<"cybex_ab_crunch", <<"c","y","b","e","x","_","a","b","_","c","r","u","n","c","h">>>>, <<"leg_press", <<"l","e","g","_","p","r","e","s","s">>>>,
     <<"hack_squat", <<"h","a","c","k","_","s","q","u","a","t">>>>, <<"face_pulls", <<"f","a","c","e","_","p","u","l","l","s">>>>,
     <<"lat_pulldown", <<"l","a","t","_","p","u","l","l","d","o","w","n">>>>, <<"treadmill", <<"t","r","e","a","d","m","i","l","l">>>>,
     <<"rowing", <<"r","o","w","i","n","g">>>>, <<"stationary_bike", <<"s","t","a","t","i","o","n","a","r","y","_","b","i","k","e">>>>}

Text(name) == (CHOOSE p \in Spelling : p[1] = name)[2]

\* s.model_dump(exclude_none=True): weight only when it is set
SetItems(set) ==
    (IF set.weight # None THEN <<<<<<"w","e","i","g","h","t">>, [float |-> set.weight[1]]>>>> ELSE <<>>)
    \o <<<<<<"r","e","p","s">>, [int |-> set.reps]>>, <<<<"f","a","i","l","e","d">>, [bool |-> set.failed]>>>>

\* the keys in the order the parser inserts them
KeyOrder ==
    <<"ts", "type", "exercise", "modality", "unit", "sets", "duration_min", "speed_mph",
      "incline_percent", "distance_miles", "rpe", "notes", "source", "raw">>

\* the dict has the key: optional keys are left out when they have no value,
\* and a note always has its notes
HasKey(record, key) ==
    /\ key \in DOMAIN record
    /\ key \in {"unit", "duration_min", "speed_mph", "incline_percent", "distance_miles", "rpe"}
          => record[key] # None
    /\ key = "notes" => (record.type = Some("note") \/ record.notes # <<>>)

ItemValue(record, key) ==
    IF key \in {"ts", "notes", "raw"} THEN [str |-> record[key]]
    ELSE IF key \in {"type", "unit"} THEN [str |-> Text(record[key][1])]
    ELSE IF key \in {"exercise", "modality", "source"} THEN [str |-> Text(record[key])]
    ELSE IF key = "sets" THEN [list |-> [i \in 1..Len(record.sets) |-> SetItems(record.sets[i])]]
    ELSE IF key = "rpe" THEN [int |-> record.rpe[1]]
    ELSE [float |-> record[key][1]]

ItemsFor(record, keys) == [i \in 1..Len(keys) |-> <<Text(keys[i]), ItemValue(record, keys[i])>>]

\* the dict of a record of the parser
ItemsOf(record) == ItemsFor(record, SelectSeq(KeyOrder, LAMBDA key : HasKey(record, key)))

\* json.dumps(record, indent=2): one item or element per line, two spaces
\* for each level
Indent(level) == [i \in 1..(2 * level) |-> " "]

RECURSIVE PrettyDict(_, _)
RECURSIVE PrettyList(_, _)
PrettyList(l, level) ==
    IF Len(l) = 0 THEN <<>>
    ELSE Indent(level) \o PrettyDict(l[1], level)
         \o (IF Len(l) > 1 THEN <<",", "\n">> ELSE <<"\n">>) \o PrettyList(Tail(l), level)

PrettyValue(v, level) ==
    IF "list" \notin DOMAIN v THEN JsonValue(v)
    ELSE IF v.list = <<>> THEN <<"[","]">>
    ELSE <<"[", "\n">> \o PrettyList(v.list, level + 1) \o Indent(level) \o <<"]">>

RECURSIVE PrettyItems(_, _)
PrettyItems(items, level) ==
    IF Len(items) = 0 THEN <<>>
    ELSE Indent(level) \o JsonString(items[1][1]) \o <<":", " ">> \o PrettyValue(items[1][2], level)
         \o (IF Len(items) > 1 THEN <<",", "\n">> ELSE <<"\n">>) \o PrettyItems(Tail(items), level)

PrettyDict(items, level) ==
    IF items = <<>> THEN <<"{","}">>
    ELSE <<"{", "\n">> \o PrettyItems(items, level + 1) \o Indent(level) \o <<"}">>

\* str(path)
RECURSIVE PathText(_)
PathText(path) ==
    IF Len(path) = 0 THEN <<>>
    ELSE IF Len(path) = 1 THEN path[1]
    ELSE path[1] \o <<"/">> \o PathText(Tail(path))

\* click.echo(text) and click.echo(text, err=True)
Echo(text) == [err |-> FALSE, text |-> text, error |-> "none"]
EchoErr(text, error) == [err |-> TRUE, text |-> text, error |-> error]

\* what a command leaves: the lines printed, the exit status, the file
\* system, the repository and the call of writeWorkoutLog it made, if any
Exit(lines, status, files, commits, wrote) ==
    [lines |-> lines, status |-> status, fs |-> files, repo |-> commits, wrote |-> wrote]

\* the message handed to the parser by log, and the warning printed with it
LogMessage(message) ==
    IF StartsWith(message, LogPrefix) THEN LogPrefix \o Strip(SubSeq(message, 6, Len(message)))
    ELSE IF StartsWith(message, NotePrefix) THEN NotePrefix \o Strip(SubSeq(message, 7, Len(message)))
    ELSE LogPrefix \o message

LogWarning(message) ==
    IF StartsWith(message, LogPrefix)
    THEN <<EchoErr(<<"N","o","t","e",":"," ","N","o"," ","n","e","e","d"," ","t","o"," ","i","n","c","l","u","d","e"," ","'","/","l","o","g","'"," ","p","r","e","f","i","x"," ","w","h","e","n"," ","u","s","i","n","g"," ","C","L","I">>, "none")>>
    ELSE IF StartsWith(message, NotePrefix)
    THEN <<EchoErr(<<"N","o","t","e",":"," ","N","o"," ","n","e","e","d"," ","t","o"," ","i","n","c","l","u","d","e"," ","'","/","n","o","t","e","'"," ","p","r","e","f","i","x"," ","w","h","e","n"," ","u","s","i","n","g"," ","C","L","I">>, "none")>>
    ELSE <<>>

\* the message handed to the parser by note, and the warning printed with it
NoteMessage(message) ==
    IF StartsWith(message, NotePrefix) THEN NotePrefix \o Strip(SubSeq(message, 7, Len(message)))
    ELSE NotePrefix \o message

NoteWarning(message) ==
    IF StartsWith(message, NotePrefix)
    THEN <<EchoErr(<<"N","o","t","e",":"," ","N","o"," ","n","e","e","d"," ","t","o"," ","i","n","c","l","u","d","e"," ","'","/","n","o","t","e","'"," ","p","r","e","f","i","x"," ","w","h","e","n"," ","u","s","i","n","g"," ","C","L","I">>, "none")>>
    ELSE <<>>

\* year, month, day = date_override.split('-') and the int() of each, then
\* datetime(...): all of them succeed
OverrideNumbers(pieces) == [i \in 1..Len(pieces) |-> Int_(Strip(pieces[i]))]

IsDate(n) ==
    /\ n[1] \in 1..9999 /\ n[2] \in 1..12
    /\ n[3] >= 1 /\ n[3] <= DaysInMonth(n[1], n[2])

OverrideOk(pieces) ==
    /\ Len(pieces) = 3
    /\ \A i \in 1..3 : IntOk(Strip(pieces[i]))
    /\ IsDate(OverrideNumbers(pieces))

\* the timestamp of the date override with the time of the clock
OverrideTimestamp(pieces, now) ==
    DateTime(PACIFIC_TZ, OverrideNumbers(pieces), now.hour, now.minute, now.second, 0)

\* what is printed after the write
Output(label, filepath, record, dry_run, no_commit) ==
    IF dry_run
    THEN <<Echo(PrettyDict(record, 0)), Echo(<<"\n","D","r","y"," ","r","u","n",":"," ","w","o","u","l","d"," ","s","a","v","e"," ","t","o"," ">> \o PathText(filepath))>>
    ELSE <<Echo(label \o PathText(filepath))>>
         \o (IF ~no_commit THEN <<Echo(<<"C","o","m","m","i","t","t","e","d"," ","t","o"," ","g","i","t">>)>> ELSE <<>>)

\* writeWorkoutLog(record, date_str, db_dir=db_path, dry_run=dry_run,
\* auto_commit=not no_commit) and the output
RunWritten(label, warning, record, date, db_dir, dry_run, no_commit, w) ==
    IF w.result.error # "none"
    THEN Exit(warning \o <<EchoErr(<<"P","a","r","s","e"," ","e","r","r","o","r",":"," ">>, w.result.error)>>, 1, w.fs, w.repo, None)
    ELSE Exit(warning \o Output(label, w.result.value, record, dry_run, no_commit), 0, w.fs, w.repo,
              Some([record |-> record, date |-> date, db_dir |-> db_dir, dry_run |-> dry_run]))

RunWrite(label, warning, record, date, db_dir, dry_run, no_commit, git, files, commits) ==
    RunWritten(label, warning, record, date, db_dir, dry_run, no_commit,
               writeWorkoutLog(files, commits, record, date, db_dir, dry_run, ~no_commit, FALSE, git))

\* parseWorkoutLog(message, timestamp=timestamp, source=source); every error
\* of the parser is a ValueError
RunParsed(label, warning, r, db_dir, dry_run, no_commit, git, files, commits) ==
    IF r.error # "none"
    THEN Exit(warning \o <<EchoErr(<<"P","a","r","s","e"," ","e","r","r","o","r",":"," ">>, r.error)>>, 1, files, commits, None)
    ELSE RunWrite(label, warning, ItemsOf(r.value.record), r.value.date,
                  IF db_dir = None \/ db_dir = Some(<<>>) THEN None ELSE db_dir,
                  dry_run, no_commit, git, files, commits)

\* the body of both commands from the date override on
Run(label, warning, message, dry_run, db_dir, date_override, source, no_commit, now, git, files, commits) ==
    IF date_override # None /\ date_override # Some(<<>>) /\ ~OverrideOk(SplitOn(date_override[1], "-"))
    THEN Exit(warning \o <<EchoErr(<<"I","n","v","a","l","i","d"," ","d","a","t","e"," ","f","o","r","m","a","t",":"," ">> \o date_override[1]
                                    \o <<"."," ","U","s","e"," ","Y","Y","Y","Y","-","M","M","-","D","D">>, "ValueError")>>,
              1, files, commits, None)
    ELSE RunParsed(label, warning,
                   parseWorkoutLog(message,
                                   IF date_override = None \/ date_override = Some(<<>>) THEN None
                                   ELSE Some(OverrideTimestamp(SplitOn(date_override[1], "-"), now)),
                                   source, now),
                   db_dir, dry_run, no_commit, git, files, commits)

log(message, dry_run, db_dir, date_override, source, no_commit, now, git, files, commits) ==
    Run(<<"L","o","g","g","e","d"," ","t","o"," ">>, LogWarning(message), LogMessage(message), dry_run, db_dir, date_override,
        source, no_commit, now, git, files, commits)

note(message, dry_run, db_dir, date_override, source, no_commit, now, git, files, commits) ==
    Run(<<"N","o","t","e"," ","l","o","g","g","e","d"," ","t","o"," ">>, NoteWarning(message), NoteMessage(message), dry_run, db_dir,
        date_override, source, no_commit, now, git, files, commits)

-----------------------------------------------------------------------------
(* The calls of the model: each call draws its arguments from bounded sets,  *)
(* runs the whole function and records its arguments and its outcome.        *)

\* longest token of the exhaustive token set
MaxTokLen == 3

\* characters of the exhaustive token set
TokAlphabet == {"2", "5", "x", "f", ","}

\* every string over TokAlphabet of length 1..MaxTokLen
SmallTokens == UNION {[1..n -> TokAlphabet] : n \in 1..MaxTokLen}

\* first tokens of every shape the recognizers distinguish, and near misses
FirstTokens == {
    <<"2","2","5">>, <<"0">>, <<"2",".","5">>, <<"0","2">>,
    <<"2","x","9","0">>, <<"2","X","9","0">>, <<"2","x","0">>, <<"0","2","x","5">>,
    <<"2",".","0","x","5">>, <<"2","2","5","x","5">>, <<"7",".","5","x","1","0">>, <<"0","x","5">>,
    <<"3","x","0">>, <<"5","x","5","x","5">>, <<"2","2","5","x","3","x","5">>, <<"2",".","5","x","2","x","3">>,
    <<"2","x","5","x","0">>, <<"2","0",",","2","0",",","2","5">>, <<"2",",","1",",","x">>, <<"X",",","F">>,
    <<"1",",",",","2">>, <<"5","x",",","3">>, <<"2",",","f","a","i","l">>, <<"f","a","i","l">>,
    <<"f","e","l","t">>, <<"r","p","e","8">>, <<"x">>, <<"5","x">>
    }

\* second tokens: third numbers, SetsxReps, rep lists, dumbbell sets, near misses
SecondTokens == {
    <<"5">>, <<"x","5">>, <<"X","3">>, <<"0">>,
    <<"3","x","5">>, <<"1","x","4">>, <<"0","x","5">>, <<"4","x","1","0",",","7">>,
    <<"4","x","1","0",",">>, <<"0","x","5",",","7">>, <<"4","x",",">>, <<"2",",","1",",","x">>,
    <<"5",",","F">>, <<"2",",","1",",","f","a","i","l">>, <<"1",",",",","2">>, <<"x">>,
    <<"5","x">>, <<"0","5">>, <<"r","p","e","8">>, <<"f","e","l","t">>,
    <<"2",".","5">>, <<"2","x","5","x","5">>, <<"f","a","i","l">>
    }

\* tokens left over after the format: rpe markers and free text
Trailers == {
    <<"r","p","e","8">>, <<"f","e","l","t">>, <<"R","P","E","1","0">>, <<"r","p","e">>,
    <<"x","5">>, <<"2",",","1">>, <<"r","p","e","8","r","p","e","9">>, <<"5">>, <<"r","p","e","0">>, <<"r","p","e","1","1">>
    }

\* the first and second tokens combined with every small token
FirstCore == {
    <<"2","2","5">>, <<"2",".","5">>, <<"2","x","9","0">>, <<"2","2","5","x","5">>,
    <<"5","x","5","x","5">>, <<"2",",","x">>
    }
SecondCore == {
    <<"5">>, <<"x","5">>, <<"3","x","5">>, <<"4","x","1","0",",","7">>, <<"2",",","1",",","x">>,
    <<"2",",","1",",","f","a","i","l">>, <<"r","p","e","8">>, <<"f","e","l","t">>
    }

\* rest strings with irregular whitespace around and between the tokens
OddRests == {
    <<>>, <<" ">>, <<" ", "\t">>,
    <<" ","5","x","5"," "," ","r","p","e","8"," ">>,
    <<"4","0","5","\t","2",",","x">>,
    <<"2","2","5","x","5"," ","f","e","l","t"," ","r","p","e","8"," ","g","o","o","d"," ","r","r","p","e","9","p","e","7">>,
    <<"2","x","9","0"," "," ","4","x","1","0",",","7"," ","e","a","s","y"," ","r","p","e","7">>
    }

\* one exercise of each kind the cascade distinguishes
ExerciseSample == {"squat", "dumbbell_bench_press", "pull_up", "leg_press"}

\* every identifier of a strength-family category
StrengthFamily == {e[1] : e \in {x \in EXERCISE_TYPE : x[2] # "cardio"}}

IsoTs == <<"T","S">>

Init ==
    /\ pc = "idle"
    /\ call = [op |-> "none"]
    /\ result = Ok(<<>>)
    /\ fs = [dirs |-> {}, files |-> <<>>]
    /\ repo = <<>>
    /\ written = <<>>

\* the call itself: arguments and outcome are recorded together
DoParseStrengthWorkout(exercise_norm, rest) ==
    /\ pc' = "done"
    /\ call' = [op |-> "parseStrengthWorkout", exercise_norm |-> exercise_norm,
                rest |-> rest]
    /\ result' = parseStrengthWorkout(exercise_norm, rest, IsoTs)
    /\ UNCHANGED <<fs, repo, written>>

\* one token after the exercise
CallStrengthOne ==
    /\ pc = "idle"
    /\ \E exercise_norm \in ExerciseSample, a \in SmallTokens \cup FirstTokens :
          DoParseStrengthWorkout(exercise_norm, a)

\* two tokens, one of them from the exhaustive set
CallStrengthSmallFirst ==
    /\ pc = "idle"
    /\ \E exercise_norm \in ExerciseSample, a \in SmallTokens, b \in SecondCore :
          DoParseStrengthWorkout(exercise_norm, Join(<<a, b>>))

CallStrengthSmallSecond ==
    /\ pc = "idle"
    /\ \E exercise_norm \in ExerciseSample, a \in FirstCore, b \in SmallTokens :
          DoParseStrengthWorkout(exercise_norm, Join(<<a, b>>))

\* two tokens of the recognizers' shapes
CallStrengthTwo ==
    /\ pc = "idle"
    /\ \E exercise_norm \in ExerciseSample, a \in FirstTokens, b \in SecondTokens :
          DoParseStrengthWorkout(exercise_norm, Join(<<a, b>>))

\* format tokens followed by a leftover token
CallStrengthThree ==
    /\ pc = "idle"
    /\ \E exercise_norm \in ExerciseSample, a \in FirstCore, b \in SecondCore, c \in Trailers :
          DoParseStrengthWorkout(exercise_norm, Join(<<a, b, c>>))

\* every strength-family identifier, and rests with irregular whitespace
CallStrengthAny ==
    /\ pc = "idle"
    /\ \E exercise_norm \in StrengthFamily, rest \in OddRests \cup FirstCore :
          DoParseStrengthWorkout(exercise_norm, rest)

StrengthNext ==
    \/ CallStrengthOne
    \/ CallStrengthSmallFirst
    \/ CallStrengthSmallSecond
    \/ CallStrengthTwo
    \/ CallStrengthThree
    \/ CallStrengthAny

SpecStrength == Init /\ [][StrengthNext]_vars

-----------------------------------------------------------------------------
(* Calls of parseDate *)

\* calendar dates of the reference: mid-month, first days of the year, the day after
\* February in a common and in a leap year, both daylight-time transitions,
\* last of the year, midsummer
RefDates == {<<2026, 2, 16>>, <<2026, 1, 1>>, <<2026, 1, 2>>, <<2026, 3, 1>>, <<2024, 3, 1>>,
             <<2026, 3, 8>>, <<2026, 11, 1>>, <<2025, 12, 31>>, <<2026, 7, 4>>}

\* wall-clock times of the reference: <<hour, minute, second>>
RefTimes == {<<0, 0, 0>>, <<1, 30, 0>>, <<2, 30, 0>>, <<7, 5, 9>>, <<16, 0, 0>>,
             <<23, 59, 59>>}

\* the zone of the caller's reference: naive, Pacific, and two other zones
Zones == {"none", PACIFIC_TZ, "UTC", "Asia/Tokyo"}

Instants ==
    {DateTime(z, d, t[1], t[2], t[3], f) :
        z \in Zones, d \in RefDates, t \in RefTimes, f \in {0, 1}}

\* what datetime.now(PACIFIC_TZ) may read
Clocks == {dt \in Instants : dt.tzinfo = PACIFIC_TZ /\ dt.fold = 0}

\* date tokens: the accepted words in several cases, padded with whitespace,
\* ISO dates (valid and invalid as calendar dates), and near misses
DateTokens == {
    <<>>, <<"t","o","d","a","y">>, <<"T","o","d","a","y">>, <<"T","O","D","A","Y">>, <<" ","t","o","d","a","y"," ">>, <<"t","o","d","a","y","\n">>,
    <<"y","e","s","t","e","r","d","a","y">>, <<"Y","E","S","T","E","R","D","A","Y">>, <<"Y","e","s","t","e","r","d","a","y">>, <<"\t","y","e","s","t","e","r","d","a","y">>, <<"y","e","s","t","e","r","d","a","y"," ">>,
    <<"2","0","2","6","-","0","1","-","3","1">>, <<"2","0","2","6","-","1","3","-","4","5">>, <<"0","0","0","0","-","0","0","-","0","0">>, <<"1","9","9","9","-","1","2","-","3","1">>,
    <<"2","0","2","6","-","0","1","-","3","1","\n">>, <<" ","2","0","2","6","-","0","1","-","3","1">>, <<"2","0","2","6","-","0","1","-","3","1"," ">>, <<"2","0","2","6","-","1","-","3","1">>,
    <<"2","0","2","6","0","1","3","1">>, <<"2","0","2","6","/","0","1","/","3","1">>, <<"2","0","2","6","-","0","1","-","3","1","1">>, <<"x","2","0","2","6","-","0","1","-","3","1">>,
    <<"2","0","2","6","-","0","1","-","3","a">>, <<"t","o","m","o","r","r","o","w">>, <<" "," ">>, <<"t","o","d","a","y","y">>, <<"t","o"," ","d","a","y">>, <<"y","e","s","t","e","r">>
    }

DoParseDate(date_str, base_date, now) ==
    /\ pc' = "done"
    /\ call' = [op |-> "parseDate", date_str |-> date_str, base_date |-> base_date,
                now |-> now]
    /\ result' = parseDate(date_str, base_date, now)
    /\ UNCHANGED <<fs, repo, written>>

\* a token resolved against the caller's reference
CallDateToken ==
    /\ pc = "idle"
    /\ \E date_str \in DateTokens, base_date \in Instants :
          DoParseDate(Some(date_str), Some(base_date), base_date)

\* no token: the reference date
CallDateAbsent ==
    /\ pc = "idle"
    /\ \E base_date \in Instants : DoParseDate(None, Some(base_date), base_date)

\* no reference: the clock is read
CallDateNow ==
    /\ pc = "idle"
    /\ \E date_str \in DateTokens, now \in Clocks :
          DoParseDate(Some(date_str), None, now)

DateNext ==
    \/ CallDateToken
    \/ CallDateAbsent
    \/ CallDateNow

SpecDate == Init /\ [][DateNext]_vars

-----------------------------------------------------------------------------
(* Calls of parseWorkoutLog *)

\* most words of a message built from the word pool
MaxWords == 4

\* words that resolve alone (dip), as a pair (chin up), as a triple (tricep dip
\* machine), or not at all, and a format token
WordPool == {<<"t","r","i","c","e","p">>, <<"d","i","p">>, <<"m","a","c","h","i","n","e">>, <<"c","h","i","n">>, <<"u","p">>, <<"5","x","5">>}

\* every sequence of 1..MaxWords words of the pool
WordLists == UNION {[1..n -> WordPool] : n \in 1..MaxWords}

\* the reference of the calls that do not vary the reference
LogRef == DateTime(PACIFIC_TZ, <<2026, 2, 16>>, 10, 30, 45, 0)

\* a Pacific reference and one of another zone whose date is a day ahead
LogRefs == {LogRef, DateTime("UTC", <<2026, 3, 1>>, 1, 30, 0, 0)}

Sources == {"telegram", "cli"}

\* what a message may start with after the prefix
StartPieces == {<<>>, <<"y","e","s","t","e","r","d","a","y">>, <<"T","o","d","a","y">>, <<"2","0","2","6","-","0","1","-","2","9">>, <<"2","0","2","6","-","1","-","2","9">>, <<"t","o","m","o","r","r","o","w">>}

\* what may follow a start piece
Separators == {<<>>, <<" ">>, <<":">>, <<":"," ">>, <<" ",":"," ">>, <<" "," ">>}

\* the entry itself
Bodies == {<<>>, <<"s","q","u","a","t"," ","2","2","5","x","5">>, <<"p","u","l","l","-","u","p"," ","2","0",",","2","7">>, <<"f","e","l","t"," ","g","o","o","d">>}

\* what a message may end with
EndPieces == {<<>>, <<" ","2","0","2","6","-","0","1","-","3","0">>, <<"2","0","2","6","-","0","1","-","3","0">>, <<"\t","2","0","2","6","-","0","2","-","3","0"," ">>, <<" ","2","0","2","6","-","0","1","-","3","0"," ","x">>,
              <<" ","y","e","s","t","e","r","d","a","y">>, <<" ","t","o","d","a","y">>, <<" ","2","0","2","6","-","1","-","3","0">>}

\* messages whose reference varies
StampedMessages == {
    <<"/","l","o","g"," ","s","q","u","a","t"," ","2","2","5","x","5">>, <<"/","l","o","g"," ","y","e","s","t","e","r","d","a","y"," ","s","q","u","a","t"," ","2","2","5","x","5">>, <<"/","l","o","g"," ","2","0","2","6","-","0","1","-","2","9",":"," ","p","u","l","l","-","u","p"," ","2","0">>,
    <<"/","n","o","t","e"," ","t","o","d","a","y"," ","f","e","l","t"," ","g","o","o","d">>, <<"/","l","o","g"," ","t","r","e","a","d","m","i","l","l"," ","1","0","m","i","n"," ","2","0","2","6","-","0","1","-","2","9">>, <<"/","n","o","t","e"," ","y","e","s","t","e","r","d","a","y">>
    }

\* messages with a prefix that is missing, misspelled or bare
PrefixMessages == {
    <<>>, <<"/","l","o","g">>, <<"/","l","o","g"," ">>, <<"/","l","o","g"," "," ">>, <<"/","n","o","t","e">>, <<"/","n","o","t","e"," ">>, <<"/","L","O","G"," ","s","q","u","a","t"," ","5","x","5">>,
    <<"l","o","g"," ","s","q","u","a","t"," ","5","x","5">>, <<" ","/","l","o","g"," ","s","q","u","a","t"," ","5","x","5">>, <<"/","l","o","g","s","q","u","a","t"," ","5","x","5">>, <<"/","l","o","g","\t","s","q","u","a","t"," ","5","x","5">>,
    <<"/","n","o","t","e","s"," ","f","e","l","t"," ","g","o","o","d">>, <<"/","n","o","t","e"," "," ","f","e","l","t"," ","g","o","o","d"," ">>, <<"/","l","o","g"," "," "," ","s","q","u","a","t"," "," "," ","2","2","5","x","5"," "," ">>,
    <<"/","l","o","g"," ","S","Q","U","A","T"," ","2","2","5","x","5">>, <<"/","l","o","g"," ","B","e","n","c","h"," ","P","r","e","s","s"," ","2","2","5","x","5">>, <<"/","l","o","g"," ","w","e","i","g","h","t","e","d"," ","p","u","l","l"," ","u","p"," ","4","5","x","5">>,
    <<"/","l","o","g"," ","d","b"," ","b","e","n","c","h"," ","2","x","9","0"," ","4","x","1","0",",","7">>, <<"/","l","o","g"," ","b","i","k","e"," ","2","0","m","i","n">>, <<"/","l","o","g"," ","s","q","u","a","t">>
    }

\* the aliases of the entries with a strength format
StrengthAliases == {<<"s","q","u","a","t">>, <<"d","b"," ","b","e","n","c","h">>, <<"p","u","l","l","-","u","p">>, <<"l","e","g"," ","p","r","e","s","s">>}

\* the aliases of the cardio entries
CardioAliases == {<<"t","r","e","a","d","m","i","l","l">>, <<"r","o","w"," ","m","a","c","h","i","n","e">>, <<"B","i","k","e">>}

Durations == {<<>>, <<"1","0","m","i","n">>, <<"1","0"," ","m","i","n","u","t","e","s">>, <<"7",".","5"," ","m","i","n","s">>}
Speeds == {<<>>, <<"3",".","2","m","p","h">>, <<"7"," ","M","P","H">>}
Inclines == {<<>>, <<"i","n","c","l","i","n","e","1","5">>, <<"1"," ","d","e","g","r","e","e"," ","i","n","c","l","i","n","e">>, <<"I","n","c","l","i","n","e"," ","2",".","5">>}
Distances == {<<>>, <<"3",".","0"," ","m","i","l","e","s">>, <<"1","m","i","l","e">>}
CardioNotesIn == {<<>>, <<"e","a","s","y",","," ","p","a","c","e">>}

DoParseWorkoutLog(message, timestamp, source, clock) ==
    /\ pc' = "done"
    /\ call' = [op |-> "parseWorkoutLog", message |-> message, timestamp |-> timestamp,
                source |-> source, clock |-> clock]
    /\ result' = parseWorkoutLog(message, timestamp, source, clock)
    /\ UNCHANGED <<fs, repo, written>>

\* /log followed by words of the pool
CallLogWords ==
    /\ pc = "idle"
    /\ \E words \in WordLists :
          DoParseWorkoutLog(LogPrefix \o Join(words), Some(LogRef), "telegram", LogRef)

\* /log or /note with date modifiers and near misses at the start and the end
CallLogDated ==
    /\ pc = "idle"
    /\ \E prefix \in {LogPrefix, NotePrefix}, start \in StartPieces, sep \in Separators,
          body \in Bodies, end \in EndPieces, timestamp \in LogRefs :
          DoParseWorkoutLog(prefix \o start \o sep \o body \o end, Some(timestamp),
                            "telegram", timestamp)

\* the same messages against every reference
CallLogStamped ==
    /\ pc = "idle"
    /\ \E message \in StampedMessages, timestamp \in Instants :
          DoParseWorkoutLog(message, Some(timestamp), "telegram", timestamp)

\* no timestamp: the clock is read
CallLogNow ==
    /\ pc = "idle"
    /\ \E message \in StampedMessages, clock \in Clocks, source \in Sources :
          DoParseWorkoutLog(message, None, source, clock)

\* prefixes
CallLogPrefix ==
    /\ pc = "idle"
    /\ \E message \in PrefixMessages, timestamp \in LogRefs, source \in Sources :
          DoParseWorkoutLog(message, Some(timestamp), source, timestamp)

\* strength entries
CallLogStrength ==
    /\ pc = "idle"
    /\ \E alias \in StrengthAliases, a \in FirstTokens, b \in SecondCore \cup {<<>>} :
          DoParseWorkoutLog(LogPrefix \o Join(<<alias, a, b>>), Some(LogRef),
                            "telegram", LogRef)

\* cardio entries
CallLogCardio ==
    /\ pc = "idle"
    /\ \E alias \in CardioAliases, d \in Durations, s \in Speeds, i \in Inclines,
          m \in Distances, n \in CardioNotesIn :
          DoParseWorkoutLog(LogPrefix \o Join(<<alias, d, s, i, m, n>>), Some(LogRef),
                            "telegram", LogRef)

\* what follows the alias in the calls that try every alias
AliasRests == {<<>>, <<"5","x","5">>, <<"1","0","m","i","n"," ","3",".","2","m","p","h">>}

\* every alias of the table
CallLogAlias ==
    /\ pc = "idle"
    /\ \E e \in EXERCISE_MAP, rest \in AliasRests :
          DoParseWorkoutLog(LogPrefix \o e[1] \o <<" ">> \o rest, Some(LogRef), "telegram", LogRef)

LogNext ==
    \/ CallLogWords
    \/ CallLogDated
    \/ CallLogStamped
    \/ CallLogNow
    \/ CallLogPrefix
    \/ CallLogStrength
    \/ CallLogCardio
    \/ CallLogAlias

SpecLog == Init /\ [][LogNext]_vars
-----------------------------------------------------------------------------
(* Calls of parseCardioWorkout *)

\* the kinds of piece a cardio text is written with
PieceKinds == <<"duration", "speed", "incline", "distance", "note">>

\* phrases of the four attributes, each spelling a number of its own, and
\* words of free text
PhrasesOf(kind) ==
    IF kind = "duration" THEN {<<"1","0","m","i","n">>, <<"1","2"," ","M","i","n","u","t","e","s">>}
    ELSE IF kind = "speed" THEN {<<"3",".","2","m","p","h">>, <<"7"," ","M","P","H">>}
    ELSE IF kind = "incline" THEN {<<"i","n","c","l","i","n","e","1","5">>, <<"1"," ","d","e","g","r","e","e"," ","i","n","c","l","i","n","e">>, <<"I","n","c","l","i","n","e"," ","2",".","5">>}
    ELSE IF kind = "distance" THEN {<<"3",".","0"," ","m","i","l","e","s">>, <<"4","m","i","l","e">>}
    ELSE {<<"e","a","s","y">>, <<"i","n","c","l","i","n","e">>}

\* every order n pieces can be written in
PieceOrders(n) == {o \in [1..n -> 1..n] : \A i, j \in 1..n : o[i] = o[j] => i = j}

\* what separates two pieces
PieceSeparators == {<<" ">>, <<","," ">>, <<"\t">>}

\* the pieces that are written, of the five kinds
PiecesIn(texts) ==
    SelectSeq([i \in 1..5 |-> [kind |-> PieceKinds[i], text |-> texts[i]]],
              LAMBDA p : Len(p.text) > 0)

\* the pieces in the order o
Reordered(pieces, o) == [i \in 1..Len(pieces) |-> pieces[o[i]]]

RECURSIVE Joined(_, _)
Joined(pieces, sep) ==
    IF Len(pieces) = 0 THEN <<>>
    ELSE IF Len(pieces) = 1 THEN pieces[1].text
    ELSE pieces[1].text \o sep \o Joined(Tail(pieces), sep)

DoParseCardioWorkout(exercise_norm, pieces, sep) ==
    /\ pc' = "done"
    /\ call' = [op |-> "parseCardioWorkout", exercise_norm |-> exercise_norm,
                pieces |-> pieces, sep |-> sep, rest |-> Joined(pieces, sep)]
    /\ result' = parseCardioWorkout(exercise_norm, Joined(pieces, sep), IsoTs)
    /\ UNCHANGED <<fs, repo, written>>

\* the pieces in every order
CallCardioPieces(exercise_norm, pieces, sep) ==
    \E o \in PieceOrders(Len(pieces)) :
        DoParseCardioWorkout(exercise_norm, Reordered(pieces, o), sep)

\* at most one piece of each kind, in every order
CallCardioOrdered ==
    /\ pc = "idle"
    /\ \E d \in PhrasesOf("duration") \cup {<<>>}, s \in PhrasesOf("speed") \cup {<<>>},
          i \in PhrasesOf("incline") \cup {<<>>}, m \in PhrasesOf("distance") \cup {<<>>},
          n \in PhrasesOf("note") \cup {<<>>} :
          CallCardioPieces("treadmill", PiecesIn(<<d, s, i, m, n>>), <<" ">>)

\* the pieces of one text with other separators
CallCardioSeparated ==
    /\ pc = "idle"
    /\ \E sep \in PieceSeparators, i \in PhrasesOf("incline"), n \in PhrasesOf("note"),
          exercise_norm \in {"treadmill", "rowing"} :
          CallCardioPieces(exercise_norm, PiecesIn(<<<<"1","0","m","i","n">>, <<>>, i, <<"4","m","i","l","e">>, n>>), sep)

CardioNext ==
    \/ CallCardioOrdered
    \/ CallCardioSeparated

SpecCardio == Init /\ [][CardioNext]_vars
-----------------------------------------------------------------------------
(* Calls of parseRepList *)

\* longest string of the exhaustive set of rep lists
MaxRepLen == 4

\* characters of the exhaustive set: a digit, two markers, the separator, a
\* sign, a blank and a letter that is no marker
RepAlphabet == {"1", "x", "F", ",", "-", " ", "a"}

\* every string over RepAlphabet of length 0..MaxRepLen
SmallRepLists == UNION {[1..n -> RepAlphabet] : n \in 0..MaxRepLen}

\* longer rep lists: the documented ones, the marker 'fail', padded entries,
\* empty entries and literals that int() accepts
LongRepLists == {
    <<"2","0",",","2","0",",","2","5">>, <<"2",",","1",",","x">>, <<"2",",","1",",","f","a","i","l">>, <<"F","A","I","L",",","f",",","X">>, <<" ","2","0"," ",","," ","2","5"," ">>, <<"5",",","\t","x","\n">>,
    <<"5",",",",","3">>, <<"5",",","3",",">>, <<"f","a","i","l","2">>, <<"2",".","5",",","3">>, <<"+","5",",","3">>, <<"1","_","0",",","3">>, <<"5",",","-","3">>, <<"0","0","7">>
    }

DoParseRepList(rep_str) ==
    /\ pc' = "done"
    /\ call' = [op |-> "parseRepList", rep_str |-> rep_str]
    /\ result' = parseRepList(rep_str)
    /\ UNCHANGED <<fs, repo, written>>

CallRepListSmall ==
    /\ pc = "idle"
    /\ \E rep_str \in SmallRepLists : DoParseRepList(rep_str)

CallRepListLong ==
    /\ pc = "idle"
    /\ \E rep_str \in LongRepLists : DoParseRepList(rep_str)

RepListNext ==
    \/ CallRepListSmall
    \/ CallRepListLong

SpecRepList == Init /\ [][RepListNext]_vars

\* the calls that return sets: parseRepList, parseStrengthWorkout and the
\* strength entries of parseWorkoutLog
SetsNext ==
    \/ RepListNext
    \/ StrengthNext
    \/ CallLogStrength

SpecSets == Init /\ [][SetsNext]_vars
-----------------------------------------------------------------------------
(* Calls of writeWorkoutLog *)

\* most calls of writeWorkoutLog in one behaviour
MaxWrites == 3

Str(s) == [str |-> s]

\* the items of a note record, in the order the parser inserts them
NoteItems(notes) ==
    <<<<<<"t","s">>, Str(<<"2","0","2","6","-","0","1","-","3","0","T","1","0",":","3","0",":","4","5","-","0","8",":","0","0">>)>>, <<<<"t","y","p","e">>, Str(<<"n","o","t","e">>)>>,
      <<<<"n","o","t","e","s">>, Str(notes)>>, <<<<"s","o","u","r","c","e">>, Str(<<"c","l","i">>)>>,
      <<<<"r","a","w">>, Str(<<"/","n","o","t","e"," ">> \o notes)>>>>

\* notes with a quote, a backslash, a tab and a line break
OddNotes == <<"a", "\"", "b", "\\", "\t", "c", "\n", "d">>

\* a note of one line; a note with a quote, a backslash, a tab and a line
\* break; a record with an integer
WriterRecords == {
    NoteItems(<<"f","e","l","t"," ","g","o","o","d">>),
    NoteItems(OddNotes),
    <<<<<<"t","y","p","e">>, Str(<<"b","o","d","y","w","e","i","g","h","t">>)>>, <<<<"e","x","e","r","c","i","s","e">>, Str(<<"p","u","l","l","_","u","p">>)>>,
      <<<<"r","p","e">>, [int |-> 10]>>>>
    }

WriterDates == {<<"2","0","2","6","-","0","1","-","3","0">>, <<"2","0","2","6","-","0","1","-","3","1">>}

\* dates that do not split into three pieces
BadDates == {<<"2","0","2","6","-","0","1">>, <<"2","0","2","6","-","0","1","-","3","0","-","3","1">>}

\* what the repository does with a commit
GitOutcomes == {"unavailable", "no_repo", "commit_fails", "push_fails", "ok"}

\* what the call returned or raised and what it left behind
WriteOutcome(out) == result' = out.result /\ fs' = out.fs /\ repo' = out.repo

DoWriteWorkoutLog(record, date, db_dir, dry_run, auto_commit, auto_push, git) ==
    /\ Len(written) < MaxWrites
    /\ call' = [op |-> "writeWorkoutLog", record |-> record, date |-> date, db_dir |-> db_dir,
                dry_run |-> dry_run, auto_commit |-> auto_commit, auto_push |-> auto_push]
    /\ WriteOutcome(writeWorkoutLog(fs, repo, record, date, db_dir, dry_run, auto_commit,
                                    auto_push, git))
    /\ written' = Append(written, [record |-> record, date |-> date, db_dir |-> db_dir,
                                   dry_run |-> dry_run])
    /\ UNCHANGED pc

\* writes and dry runs into one database directory
CallWrite ==
    /\ pc = "idle"
    /\ \E record \in WriterRecords, date \in WriterDates, dry_run \in BOOLEAN :
          DoWriteWorkoutLog(record, date, Some(<<<<"d","b">>>>), dry_run, FALSE, FALSE, "unavailable")

\* the default database directory
CallWriteDefaultDir ==
    /\ pc = "idle"
    /\ \E dry_run \in BOOLEAN :
          DoWriteWorkoutLog(NoteItems(<<"f","e","l","t"," ","g","o","o","d">>), <<"2","0","2","6","-","0","1","-","3","0">>, None, dry_run, FALSE, FALSE,
                            "unavailable")

\* a date that is not YYYY-MM-DD
CallWriteBadDate ==
    /\ pc = "idle"
    /\ \E date \in BadDates :
          DoWriteWorkoutLog(NoteItems(<<"f","e","l","t"," ","g","o","o","d">>), date, Some(<<<<"d","b">>>>), FALSE, FALSE, FALSE,
                          "unavailable")

\* writes that commit, whatever the repository does
CallWriteCommit ==
    /\ pc = "idle"
    /\ \E git \in GitOutcomes, auto_push \in BOOLEAN :
          DoWriteWorkoutLog(NoteItems(<<"f","e","l","t"," ","g","o","o","d">>), <<"2","0","2","6","-","0","1","-","3","0">>, Some(<<<<"d","b">>>>), FALSE, TRUE,
                          auto_push, git)

WriterNext ==
    \/ CallWrite
    \/ CallWriteDefaultDir
    \/ CallWriteBadDate
    \/ CallWriteCommit

SpecWriter == Init /\ [][WriterNext]_vars
-----------------------------------------------------------------------------
(* Calls of formatCommitMessage *)

\* longest note text of the calls
MaxNoteLen == 70

\* a text of n letters
Letters(n) == [i \in 1..n |-> "a"]

\* note records of every length up to MaxNoteLen, bare and with whitespace around
FormatNotes == {NoteItems(pad \o Letters(n) \o pad) : n \in 0..MaxNoteLen, pad \in {<<>>, <<" ">>}}

\* the name written into the record, the identifier parsed under, its category
FormatExercises == {
    <<<<"s","q","u","a","t">>, "squat", <<"s","t","r","e","n","g","t","h">>>>,
    <<<<"p","u","l","l","_","u","p">>, "pull_up", <<"b","o","d","y","w","e","i","g","h","t">>>>,
    <<<<"d","u","m","b","b","e","l","l","_","b","e","n","c","h","_","p","r","e","s","s">>, "dumbbell_bench_press", <<"s","t","r","e","n","g","t","h">>>>,
    <<Letters(58), "squat", <<"s","t","r","e","n","g","t","h">>>>,
    <<<<>>, "squat", <<"s","t","r","e","n","g","t","h">>>>
    }

\* what follows the exercise
FormatRests == {
    <<>>, <<"2","2","5","x","5">>, <<"2","2","5","x","5","x","3">>, <<"2","2","5"," ","2",",","1",",","x">>, <<"2","2","5"," ","5",",","5",",","5">>, <<"5","x","5">>, <<"0","x","5">>, <<"2",".","5"," ","3","x","5"," ","r","p","e","8">>,
    <<"2","0">>, <<"2","0",",","2","0",",","2","5">>, <<"x",",","x">>, <<"2","x","9","0"," ","4","x","1","0",",","7"," ","r","p","e","1","0">>, <<"2","x","9","0"," ","4","x","1","0">>, <<"2","2","5","x","5"," ","r","p","e","0">>,
    <<"0"," ","5",",","5">>, <<"2","2","5","x","0","x","5">>, <<"2","2","5"," ","5",",">>
    }

\* the dict of a parsed strength entry, logged under the name
WorkoutItems(name, type, r) ==
    <<<<<<"t","s">>, Str(r.ts)>>, <<<<"t","y","p","e">>, Str(type)>>, <<<<"e","x","e","r","c","i","s","e">>, Str(name)>>,
      <<<<"s","e","t","s">>, [list |-> [i \in 1..Len(r.sets) |-> SetItems(r.sets[i])]]>>>>
    \o (IF r.rpe # None THEN <<<<<<"r","p","e">>, [int |-> r.rpe[1]]>>>> ELSE <<>>)
    \o (IF r.notes # <<>> THEN <<<<<<"n","o","t","e","s">>, Str(r.notes)>>>> ELSE <<>>)

\* cardio records, and a record that names nothing
FormatCardio == {
    <<<<<<"t","y","p","e">>, Str(<<"c","a","r","d","i","o">>)>>, <<<<"m","o","d","a","l","i","t","y">>, Str(<<"t","r","e","a","d","m","i","l","l">>)>>,
      <<<<"d","u","r","a","t","i","o","n","_","m","i","n">>, [int |-> 10]>>>>,
    <<<<<<"t","y","p","e">>, Str(<<"c","a","r","d","i","o">>)>>, <<<<"m","o","d","a","l","i","t","y">>, Str(Letters(66))>>>>,
    <<<<<<"t","y","p","e">>, Str(<<"c","a","r","d","i","o">>)>>, <<<<"e","x","e","r","c","i","s","e">>, Str(<<>>)>>, <<<<"m","o","d","a","l","i","t","y">>, Str(<<"r","o","w","i","n","g">>)>>>>,
    <<<<<<"t","y","p","e">>, Str(<<"c","a","r","d","i","o">>)>>>>,
    <<<<<<"n","o","t","e","s">>, Str(Letters(70))>>>>
    }

DoFormatCommitMessage(record) ==
    /\ pc' = "done"
    /\ call' = [op |-> "formatCommitMessage", record |-> record]
    /\ result' = Ok(formatCommitMessage(record))
    /\ UNCHANGED <<fs, repo, written>>

\* note records
CallFormatNote ==
    /\ pc = "idle"
    /\ \E record \in FormatNotes : DoFormatCommitMessage(record)

\* records of parsed strength entries
CallFormatWorkout ==
    /\ pc = "idle"
    /\ \E e \in FormatExercises, rest \in FormatRests :
          /\ parseStrengthWorkout(e[2], rest, IsoTs).error = "none"
          /\ DoFormatCommitMessage(WorkoutItems(e[1], e[3], parseStrengthWorkout(e[2], rest, IsoTs).value))

\* cardio records
CallFormatCardio ==
    /\ pc = "idle"
    /\ \E record \in FormatCardio : DoFormatCommitMessage(record)

FormatNext ==
    \/ CallFormatNote
    \/ CallFormatWorkout
    \/ CallFormatCardio

SpecFormat == Init /\ [][FormatNext]_vars
-----------------------------------------------------------------------------
(* Runs of the log and note commands *)

\* most runs that write in one behaviour
MaxRuns == 2

\* messages given to log: entries of every category, a prefix, a date
\* modifier, an unknown exercise, nothing
CliMessages == {
    <<"s","q","u","a","t"," ","2","2","5","x","5","x","3"," ","r","p","e","8">>, <<"p","u","l","l","-","u","p"," ","2","0",",","2","0",",","2","5">>, <<"t","r","e","a","d","m","i","l","l"," ","1","0","m","i","n"," ","3",".","2","m","p","h">>,
    <<"/","l","o","g"," "," ","d","e","a","d","l","i","f","t"," ","4","0","5"," ","2",",","1",",","x"," ">>, <<"y","e","s","t","e","r","d","a","y",":"," ","d","b"," ","b","e","n","c","h"," ","2","x","9","0"," ","4","x","1","0",",","7"," ","e","a","s","y">>, <<"b","o","g","u","s"," ","5","x","5">>,
    <<>>, <<"/","n","o","t","e"," ","h","m","m">>
    }

\* messages given to note
CliNotes == {<<"f","e","l","t"," ","t","i","r","e","d">>, <<"/","n","o","t","e"," "," ","s","k","i","p","p","e","d"," ","\"","l","e","g"," ","d","a","y","\""," ">>, <<>>, <<"y","e","s","t","e","r","d","a","y",":"," ","s","o","r","e">>}

\* --date: absent, empty, a date, and values that are no date
CliDates == {None, Some(<<>>), Some(<<"2","0","2","6","-","0","1","-","3","0">>), Some(<<"2","0","2","6","-","+","1","-"," ","5">>), Some(<<"2","0","2","6","-","0","2","-","3","0">>),
             Some(<<"2","0","2","6","-","0","1">>), Some(<<"t","o","d","a","y">>)}

CliDbDir == Some(<<<<"d","b">>>>)

\* what the run printed, its exit status and what it left behind
CliOutcome(o) ==
    /\ result' = Ok([lines |-> o.lines, status |-> o.status])
    /\ fs' = o.fs
    /\ repo' = o.repo
    /\ written' = IF o.wrote = None THEN written ELSE Append(written, o.wrote[1])

DoLog(message, dry_run, db_dir, date_override, source, no_commit, now, git) ==
    /\ Len(written) < MaxRuns
    /\ call' = [op |-> "log", message |-> message, dry_run |-> dry_run, db_dir |-> db_dir,
                date_override |-> date_override, source |-> source, no_commit |-> no_commit]
    /\ CliOutcome(log(message, dry_run, db_dir, date_override, source, no_commit, now, git, fs, repo))
    /\ UNCHANGED pc

DoNote(message, dry_run, db_dir, date_override, source, no_commit, now, git) ==
    /\ Len(written) < MaxRuns
    /\ call' = [op |-> "note", message |-> message, dry_run |-> dry_run, db_dir |-> db_dir,
                date_override |-> date_override, source |-> source, no_commit |-> no_commit]
    /\ CliOutcome(note(message, dry_run, db_dir, date_override, source, no_commit, now, git, fs, repo))
    /\ UNCHANGED pc

\* log without a commit, written or as a dry run
CallLog ==
    /\ pc = "idle"
    /\ \E message \in CliMessages, dry_run \in BOOLEAN :
          DoLog(message, dry_run, CliDbDir, None, "cli", TRUE, LogRef, "unavailable")

\* log with the commit, whatever the repository does
CallLogCommit ==
    /\ pc = "idle"
    /\ \E message \in {<<"s","q","u","a","t"," ","2","2","5","x","5","x","3"," ","r","p","e","8">>, <<"b","o","g","u","s"," ","5","x","5">>}, dry_run \in BOOLEAN, git \in GitOutcomes :
          DoLog(message, dry_run, CliDbDir, None, "cli", FALSE, LogRef, git)

\* log with a date override, into the default directory
CallLogDate ==
    /\ pc = "idle"
    /\ \E date_override \in CliDates, db_dir \in {None, Some(<<>>)} :
          DoLog(<<"s","q","u","a","t"," ","2","2","5","x","5">>, FALSE, db_dir, date_override, "telegram", TRUE, LogRef, "unavailable")

\* note without a commit
CallNote ==
    /\ pc = "idle"
    /\ \E message \in CliNotes, dry_run \in BOOLEAN, date_override \in {None, Some(<<"2","0","2","6","-","0","1","-","3","0">>)} :
          DoNote(message, dry_run, CliDbDir, date_override, "cli", TRUE, LogRef, "unavailable")

\* note with the commit, whatever the repository does
CallNoteCommit ==
    /\ pc = "idle"
    /\ \E git \in GitOutcomes :
          DoNote(<<"f","e","l","t"," ","t","i","r","e","d">>, FALSE, CliDbDir, None, "cli", FALSE, LogRef, git)

CliNext ==
    \/ CallLog
    \/ CallLogCommit
    \/ CallLogDate
    \/ CallNote
    \/ CallNoteCommit

SpecCli == Init /\ [][CliNext]_vars

Next ==
    \/ StrengthNext
    \/ DateNext
    \/ LogNext
    \/ CardioNext
    \/ RepListNext
    \/ WriterNext
    \/ FormatNext
    \/ CliNext

Spec == Init /\ [][Next]_vars


-----------------------------------------------------------------------------
(* Properties of parseStrengthWorkout (checked under SpecStrength) *)

\* a call of parseStrengthWorkout has returned or raised
StrengthDone == pc = "done" /\ call.op = "parseStrengthWorkout"

\* the whitespace-separated tokens of the call's rest
Parts == Split(call.rest)

\* the call returned a record
Returned == result.error = "none"

Weighted(w, n) == [weight |-> Some(w), reps |-> n, failed |-> FALSE]
Unweighted(n) == [weight |-> None, reps |-> n, failed |-> FALSE]
FailedSet(weight) == [weight |-> weight, reps |-> 0, failed |-> TRUE]

\* the record holds exactly these sets, with or without the unit
HasSets(sets, unit) ==
    Returned /\ result.value.sets = sets /\ result.value.unit = unit

\* the first token has the form AxB
FirstIsAxB == StrengthDone /\ Len(Parts) >= 1 /\ MatchNxM(Parts[1])
NumA == Float(BeforeX(Parts[1]))
NumB == DigitsVal(AfterX(Parts[1]))

\* a second token N or xN follows
HasThird == Len(Parts) > 1 /\ MatchThird(Parts[2])

\* recognizer 4 takes the token first: a dumbbell exercise and the token 2xB
DumbbellTakesIt == IsDumbbell(call.exercise_norm) /\ MatchDumbbell(Parts[1])

\* C1 as stated: for a first token AxB, a second token N or xN gives B sets
\* {weight A, reps N} with unit lb in every category; otherwise a bodyweight
\* exercise gets A sets {reps B} without weight or unit; otherwise one set
\* {weight A, reps B} with unit lb.
C1_AsStated ==
    FirstIsAxB =>
        IF HasThird
        THEN HasSets(Repeat(NumB, Weighted(NumA, ThirdNumber(Parts[2]))), Some("lb"))
        ELSE IF IsBodyweight(call.exercise_norm)
        THEN NumA[2] = 0 /\ HasSets(Repeat(NumA[1], Unweighted(NumB)), None)
        ELSE HasSets(<<Weighted(NumA, NumB)>>, Some("lb"))

\* C1 amended: the same three readings of a first token AxB, with the second
\* token checked before the bodyweight reading, hold unless the exercise is a
\* dumbbell exercise and the token is 2xB (recognizer 4 fires first); the
\* bodyweight reading produces int(A) sets (A truncated).
C1_TwoNumbers ==
    (FirstIsAxB /\ ~DumbbellTakesIt) =>
        IF HasThird
        THEN HasSets(Repeat(NumB, Weighted(NumA, ThirdNumber(Parts[2]))), Some("lb"))
        ELSE IF IsBodyweight(call.exercise_norm)
        THEN HasSets(Repeat(IntOfFloat(NumA), Unweighted(NumB)), None)
        ELSE HasSets(<<Weighted(NumA, NumB)>>, Some("lb"))

\* C1 witness: a bodyweight exercise, AxB followed by a third number, and the
\* weighted reading produced several sets
C1_Witness ==
    /\ FirstIsAxB /\ HasThird /\ IsBodyweight(call.exercise_norm)
    /\ Returned /\ Len(result.value.sets) >= 2
    /\ result.value.sets[1].weight # None

\* the first token is fused WxSxR
FirstIsFused == StrengthDone /\ Len(Parts) >= 1 /\ MatchNxMxP(Parts[1])

\* a bare number W followed by SxR, for an exercise that is not bodyweight
WeightThenSxRCase ==
    /\ StrengthDone /\ ~IsBodyweight(call.exercise_norm)
    /\ Len(Parts) > 1 /\ IsNumber(Parts[1]) /\ MatchSxR(Parts[2])

\* C2: a fused first token WxSxR gives exactly S sets {weight W, reps R} and
\* unit lb in every category; for an exercise that is not bodyweight a bare
\* number W followed by SxR gives the same.
C2_UniformSets ==
    /\ FirstIsFused =>
          HasSets(Repeat(DigitsVal(BeforeX(AfterX(Parts[1]))),
                         Weighted(Float(BeforeX(Parts[1])),
                                  DigitsVal(AfterX(AfterX(Parts[1]))))),
                  Some("lb"))
    /\ WeightThenSxRCase =>
          HasSets(Repeat(DigitsVal(BeforeX(Parts[2])),
                         Weighted(Float(Parts[1]), DigitsVal(AfterX(Parts[2])))),
                  Some("lb"))

\* C2 witness: a fused token with different set count and reps, for a
\* bodyweight exercise, produced its sets
C2_Witness ==
    /\ FirstIsFused /\ IsBodyweight(call.exercise_norm)
    /\ Returned /\ Len(result.value.sets) >= 2
    /\ result.value.sets[1].reps # Len(result.value.sets)

\* the entries of a rep list token
Entries(s) == SplitOn(s, ",")
IsMarker(piece, markers) == Lower(piece) \in markers

\* a rep list: every comma-separated entry is a rep count or a failure marker
IsRepList(s, markers) ==
    \A i \in 1..Len(Entries(s)) :
        IsDigits(Entries(s)[i]) \/ IsMarker(Entries(s)[i], markers)

\* one set per entry, in order, each at the given weight (None: no weight)
SetsOfEntries(s, markers, weight) ==
    [i \in 1..Len(Entries(s)) |->
        IF IsMarker(Entries(s)[i], markers) THEN FailedSet(weight)
        ELSE [weight |-> weight, reps |-> DigitsVal(Entries(s)[i]), failed |-> FALSE]]

\* C3 as stated: for an exercise that is not bodyweight, a bare number W
\* followed by a rep list (rep counts and failure markers x, f, fail) gives one
\* set per entry, in order, each at weight W, a marker giving reps 0 and
\* failed, and the unit lb.
C3_AsStated ==
    ( /\ StrengthDone /\ ~IsBodyweight(call.exercise_norm)
      /\ Len(Parts) > 1 /\ IsNumber(Parts[1]) /\ IsRepList(Parts[2], FailMarkers) )
    => HasSets(SetsOfEntries(Parts[2], FailMarkers, Some(Float(Parts[1]))), Some("lb"))

\* the single-letter markers the recognizers let through
LetterMarkers == {<<"x">>, <<"f">>}

\* the first token is made of digits, commas, x and f and has a comma
FirstIsRepChars ==
    StrengthDone /\ Len(Parts) >= 1 /\ MatchRepChars(Parts[1]) /\ HasComma(Parts[1])

\* C4 as stated: whenever the first token is made of digits, commas and x/f
\* markers and has a comma, the record has one unweighted set per entry, in
\* order, and no unit.
C4_AsStated ==
    FirstIsRepChars => HasSets(SetsOfEntries(Parts[1], LetterMarkers, None), None)

\* C4 amended: the same, provided every comma-separated entry is a rep count
\* or a single x or f; with any other entry (empty, or digits mixed with
\* markers) the call fails with InvalidRepToken and returns no record.
C4_RepsOnly ==
    FirstIsRepChars =>
        IF IsRepList(Parts[1], LetterMarkers)
        THEN HasSets(SetsOfEntries(Parts[1], LetterMarkers, None), None)
        ELSE result.error = "InvalidRepToken"

\* C4 witness: a rep list with a failed entry after a successful one, for an
\* exercise that is not bodyweight
C4_Witness ==
    /\ FirstIsRepChars /\ ~IsBodyweight(call.exercise_norm)
    /\ Returned /\ Len(result.value.sets) >= 2
    /\ result.value.sets[1].reps > 0 /\ result.value.sets[2].failed

\* the guards of recognizers 2 to 8, each as the spec words it
Recognizer2 == IsBodyweight(call.exercise_norm) /\ IsDigits(Parts[1])
Recognizer3 == MatchRepChars(Parts[1]) /\ HasComma(Parts[1])
Recognizer4 == IsDumbbell(call.exercise_norm) /\ MatchDumbbell(Parts[1])
Recognizer5 == MatchNxM(Parts[1])
Recognizer6 == MatchNxMxP(Parts[1])
Recognizer7 == IsNumber(Parts[1]) /\ Len(Parts) > 1 /\ MatchSxR(Parts[2])
Recognizer8 == IsNumber(Parts[1]) /\ Len(Parts) > 1 /\ MatchRepChars(Parts[2])

SomeRecognizer ==
    \/ Recognizer2 \/ Recognizer3 \/ Recognizer4 \/ Recognizer5
    \/ Recognizer6 \/ Recognizer7 \/ Recognizer8

\* the remainder is not empty
HasRemainder == StrengthDone /\ Len(Parts) >= 1

\* C5 as stated: with a non-empty remainder the call fails with
\* UnparsableFormat, naming the remainder, exactly when no recognizer 2 to 8
\* matches, and in every other case a record with sets is returned.
C5_AsStated ==
    HasRemainder =>
        IF SomeRecognizer THEN Returned
        ELSE result.error = "UnparsableFormat" /\ result.detail = call.rest

\* the first recognizer that matches is a rep-list one (3, 4 with a second
\* token of sets, or 8) and one of its entries is not a rep count or marker
BadRepEntry ==
    IF Recognizer2 THEN FALSE
    ELSE IF Recognizer3 THEN ~IsRepList(Parts[1], LetterMarkers)
    ELSE IF Recognizer4
         THEN /\ Len(Parts) > 1 /\ MatchSetsFormat(Parts[2])
              /\ ~IsRepList(AfterX(Parts[2]), {})
    ELSE IF Recognizer5 \/ Recognizer6 \/ Recognizer7 THEN FALSE
    ELSE Recognizer8 /\ ~IsRepList(Parts[2], LetterMarkers)

\* C5 amended: the call fails with UnparsableFormat, naming the remainder,
\* exactly when no recognizer 2 to 8 matches; when one matches, a record is
\* returned unless the matching recognizer reads a rep list (3, 4 or 8) with
\* an entry that is neither a rep count nor a marker, and then the call fails
\* with InvalidRepToken and returns no record.
C5_Unparsable ==
    HasRemainder =>
        IF ~SomeRecognizer
        THEN result.error = "UnparsableFormat" /\ result.detail = call.rest
        ELSE IF BadRepEntry THEN result.error = "InvalidRepToken"
        ELSE Returned

\* C5 witness: two tokens that no recognizer matches, for a machine exercise
C5_Witness ==
    /\ HasRemainder /\ Len(Parts) = 2 /\ ~SomeRecognizer
    /\ getExerciseType(call.exercise_norm) = Some("machine")
    /\ result.error = "UnparsableFormat"

\* C6: in every strength-family record the unit is present (and is lb) if and
\* only if at least one set carries a weight.
C6_UnitIffWeight ==
    (StrengthDone /\ Returned) =>
        /\ result.value.unit \in {None, Some("lb")}
        /\ (result.value.unit = Some("lb"))
           <=> (\E i \in 1..Len(result.value.sets) : result.value.sets[i].weight # None)

-----------------------------------------------------------------------------
(* Properties of parseDate (checked under SpecDate) *)

\* a call of parseDate has returned or raised
DateDone == pc = "done" /\ call.op = "parseDate"

\* the reference of the call in the Pacific zone
Reference == ToPacific(IF call.base_date = None THEN call.now ELSE call.base_date[1])

\* the calendar day before <<year, month, day>>
PrevDay(d) ==
    IF d[3] > 1 THEN <<d[1], d[2], d[3] - 1>>
    ELSE IF d[2] > 1 THEN <<d[1], d[2] - 1, DaysInMonth(d[1], d[2] - 1)>>
    ELSE <<d[1] - 1, 12, 31>>

\* text is exactly width digits that spell n
Spells(text, width, n) == Len(text) = width /\ IsDigits(text) /\ DigitsVal(text) = n

\* the call resolved to the calendar date d, with padded components
ResolvesTo(d) ==
    /\ result.error = "none"
    /\ result.value.date_obj = d
    /\ Spells(result.value.year, 4, d[1])
    /\ Spells(result.value.month, 2, d[2])
    /\ Spells(result.value.day, 2, d[3])

\* the call resolved to the literal digits of an ISO token
ResolvesLiterally(token) ==
    /\ result.error = "none"
    /\ result.value.year = SubSeq(token, 1, 4)
    /\ result.value.month = SubSeq(token, 6, 7)
    /\ result.value.day = SubSeq(token, 9, 10)

\* token has the shape YYYY-MM-DD
IsoShape(token) ==
    /\ Len(token) = 10
    /\ \A i \in 1..10 : IF i \in {5, 8} THEN token[i] = "-" ELSE token[i] \in Digits

FailsInvalidDate == result.error = "InvalidDate" /\ result.detail = call.date_str[1]

\* C10 as stated: an absent token or 'today' in any letter case resolves to the
\* Pacific date of the reference, 'yesterday' in any letter case to the day
\* before, a YYYY-MM-DD token to its literal digits, and every other non-empty
\* token fails with InvalidDate.
C10_AsStated ==
    DateDone =>
        IF call.date_str = None THEN ResolvesTo(DateOf(Reference))
        ELSE IF Lower(call.date_str[1]) = Today THEN ResolvesTo(DateOf(Reference))
        ELSE IF Lower(call.date_str[1]) = Yesterday THEN ResolvesTo(PrevDay(DateOf(Reference)))
        ELSE IF IsoShape(call.date_str[1]) THEN ResolvesLiterally(call.date_str[1])
        ELSE call.date_str[1] # <<>> => FailsInvalidDate

\* the token without its surrounding whitespace, in lower case
Trimmed == Strip(Lower(call.date_str[1]))

\* token is YYYY-MM-DD, possibly followed by one newline
IsoOrNewline(token) ==
    \/ IsoShape(token)
    \/ Len(token) = 11 /\ token[11] = "\n" /\ IsoShape(SubSeq(token, 1, 10))

\* C10 (amended): an absent or empty token, or a token that is 'today' once
\* lower-cased and stripped of surrounding whitespace, resolves to the Pacific
\* date of the reference; one that is 'yesterday' likewise to the day before; a
\* token of the shape YYYY-MM-DD (optionally followed by one newline, nothing
\* else around it) resolves to its literal digits; every other non-empty token
\* fails with InvalidDate.  Resolved components are padded to 4, 2 and 2 digits.
C10_Resolve ==
    DateDone =>
        IF call.date_str = None \/ call.date_str = Some(<<>>)
        THEN ResolvesTo(DateOf(Reference))
        ELSE IF Trimmed = Today THEN ResolvesTo(DateOf(Reference))
        ELSE IF Trimmed = Yesterday THEN ResolvesTo(PrevDay(DateOf(Reference)))
        ELSE IF IsoOrNewline(call.date_str[1]) THEN ResolvesLiterally(call.date_str[1])
        ELSE FailsInvalidDate

\* 'yesterday' in upper case against a reference of another zone whose own
\* calendar date is not the Pacific one
C10_Witness ==
    /\ DateDone
    /\ call.base_date # None
    /\ call.base_date[1].tzinfo = "UTC"
    /\ DateOf(call.base_date[1]) # DateOf(Reference)
    /\ call.date_str[1] # Lower(call.date_str[1])
    /\ Trimmed = Yesterday
    /\ ResolvesTo(PrevDay(DateOf(Reference)))
    /\ result.value.date_obj[3] > DateOf(Reference)[3]

-----------------------------------------------------------------------------
(* Properties of parseWorkoutLog (checked under SpecLog) *)

\* a call of parseWorkoutLog has returned or raised
LogDone == pc = "done" /\ call.op = "parseWorkoutLog"

IsLogMessage == StartsWith(call.message, LogPrefix)
IsNoteMessage == StartsWith(call.message, NotePrefix)
Prefixed == IsLogMessage \/ IsNoteMessage

\* the message without its prefix and without surrounding whitespace
Content ==
    Strip(SubSeq(call.message, IF IsLogMessage THEN 6 ELSE 7, Len(call.message)))

\* the reference instant of the call, as given and in the Pacific zone
GivenReference == IF call.timestamp = None THEN call.clock ELSE call.timestamp[1]
LogReference == ToPacific(GivenReference)

\* c starts with the word w, letter case ignored
StartsWithWord(c, w) == Len(c) >= Len(w) /\ Lower(SubSeq(c, 1, Len(w))) = w

\* length of the date token c starts with, 0 when it starts with none
StartLen(c) ==
    IF StartsWithWord(c, Yesterday) THEN 9
    ELSE IF StartsWithWord(c, Today) THEN 5
    ELSE IF Len(c) >= 10 /\ IsoShape(SubSeq(c, 1, 10)) THEN 10
    ELSE 0

\* c starts with a date token that is followed by ':' or whitespace
HasStartModifier(c) ==
    /\ StartLen(c) > 0 /\ Len(c) > StartLen(c)
    /\ c[StartLen(c) + 1] \in Whitespace \cup {":"}

\* c ends with an ISO date that is preceded by whitespace
HasEndModifier(c) ==
    /\ Len(c) >= 11
    /\ IsoShape(SubSeq(c, Len(c) - 9, Len(c)))
    /\ c[Len(c) - 10] \in Whitespace

\* c ends with the word 'yesterday' or 'today' preceded by whitespace
HasTrailingWord(c) ==
    \E w \in {Yesterday, Today} :
        /\ Len(c) > Len(w)
        /\ Lower(SubSeq(c, Len(c) - Len(w) + 1, Len(c))) = w
        /\ c[Len(c) - Len(w)] \in Whitespace

RECURSIVE LStrip(_)
LStrip(s) == IF s # <<>> /\ s[1] \in Whitespace THEN LStrip(Tail(s)) ELSE s

\* r without the separator it starts with: whitespace, or a colon with any
\* whitespace around it
AfterSeparator(r) ==
    IF LStrip(r) # <<>> /\ LStrip(r)[1] = ":" THEN LStrip(Tail(LStrip(r))) ELSE LStrip(r)

\* the one date modifier of a message with content c, None when it has none
ModifierOf(c, is_log) ==
    IF HasStartModifier(c) THEN Some(SubSeq(c, 1, StartLen(c)))
    ELSE IF is_log /\ HasEndModifier(c) THEN Some(SubSeq(c, Len(c) - 9, Len(c)))
    ELSE None

\* the content c without its date modifier
EntryOf(c, is_log) ==
    IF HasStartModifier(c) THEN AfterSeparator(SubSeq(c, StartLen(c) + 1, Len(c)))
    ELSE IF is_log /\ HasEndModifier(c) THEN Strip(SubSeq(c, 1, Len(c) - 10))
    ELSE c

Modifier == ModifierOf(Content, IsLogMessage)
Entry == EntryOf(Content, IsLogMessage)

TwoDigits(n) == <<DigitChars[(n \div 10) + 1], DigitChars[(n % 10) + 1]>>

\* YYYY-MM-DD of a calendar date
DateText(d) ==
    TwoDigits(d[1] \div 100) \o TwoDigits(d[1] % 100) \o <<"-">> \o TwoDigits(d[2])
        \o <<"-">> \o TwoDigits(d[3])

\* HH:MM:SS of a datetime
ClockText(dt) ==
    TwoDigits(dt.hour) \o <<":">> \o TwoDigits(dt.minute) \o <<":">> \o TwoDigits(dt.second)

\* the offset of so many minutes, as -HH:MM or +HH:MM
OffsetText(off) ==
    IF off < 0
    THEN <<"-">> \o TwoDigits((0 - off) \div 60) \o <<":">> \o TwoDigits((0 - off) % 60)
    ELSE <<"+">> \o TwoDigits(off \div 60) \o <<":">> \o TwoDigits(off % 60)

\* the date a modifier resolves to
ResolvedDateText(modifier) ==
    IF modifier = None \/ Lower(modifier[1]) = Today THEN DateText(DateOf(LogReference))
    ELSE IF Lower(modifier[1]) = Yesterday THEN DateText(PrevDay(DateOf(LogReference)))
    ELSE modifier[1]

\* the phrase of the first n words
Phrase(words, n) == Join(SubSeq(words, 1, n))

\* a phrase is registered in the alias table, and what it stands for
Registered(lower) == \E e \in EXERCISE_MAP : e[1] = lower
Known(phrase) == Registered(Lower(phrase))
CanonicalOf(lower) == (CHOOSE e \in EXERCISE_MAP : e[1] = lower)[2]
Canonical(phrase) == CanonicalOf(Lower(phrase))

\* the phrase lengths that are tried, and those that resolve
Tried(words) == {n \in 1..3 : n <= Len(words)}
Resolving(words) == {n \in Tried(words) : Known(Phrase(words, n))}

Shortest(ns) == CHOOSE n \in ns : \A k \in ns : n <= k

\* what the parser of an exercise makes of the words after its phrase
OutcomeOf(exercise_norm, rest) ==
    Dispatch(exercise_norm, getExerciseType(exercise_norm), rest,
             IF result.error = "none" THEN result.value.record.ts ELSE <<>>)

\* the call is the outcome r with source and raw message attached
IsOutcome(r) ==
    IF r.error = "none"
    THEN /\ result.error = "none"
         /\ result.value.record = WithSource(r.value, call.source, call.message)
    ELSE result = r

\* the phrase of n words is accepted and the words after it are the remainder
Accepts(words, n) ==
    IsOutcome(OutcomeOf(Canonical(Phrase(words, n)),
                        Join(SubSeq(words, n + 1, Len(words)))))

\* the shortest resolving phrase is accepted; when none resolves the call
\* fails with UnknownExercise naming the phrase of so many words
LookupOf(words, ns, named) ==
    IF ns # {} THEN Accepts(words, Shortest(ns))
    ELSE result.error = "UnknownExercise" /\ result.detail = Phrase(words, named)

LookupNamingShort(words) ==
    Len(words) > 0 =>
        LookupOf(words, Resolving(words), IF Len(words) = 1 THEN 1 ELSE 2)

LookupNamingLongest(words) ==
    Len(words) > 0 =>
        LookupOf(words, Resolving(words), IF Len(words) >= 3 THEN 3 ELSE Len(words))

\* C7 as stated: the phrases of one, two and three words are tried in this
\* order, the first that resolves is accepted and the words after it are the
\* remainder; when none resolves the call fails with UnknownExercise naming
\* the one- or two-word candidate.
C7_AsStated == (LogDone /\ IsLogMessage) => LookupNamingShort(Split(Entry))

\* C7 (amended): the phrases of one, two and three words are tried in this
\* order, the first that resolves is accepted and the words after it are the
\* remainder; when none resolves the call fails with UnknownExercise naming
\* the longest candidate tried: the first three words, or all the words when
\* there are fewer.
C7_Lookup == (LogDone /\ IsLogMessage) => LookupNamingLongest(Split(Entry))

\* a three-word phrase is accepted after its one- and two-word forms failed,
\* and the fourth word is parsed as the remainder
C7_Witness ==
    /\ LogDone /\ IsLogMessage
    /\ Len(Split(Entry)) = 4
    /\ Resolving(Split(Entry)) = {3}
    /\ result.error = "none"
    /\ result.value.record.exercise = "tricep_dip_machine"
    /\ Len(result.value.record.sets) = 1

\* C8: at most one date modifier is taken.  A date token at the start that is
\* followed by ':' or whitespace is the modifier for /log and /note, and the
\* end is then left alone; otherwise, for /log only, an ISO date at the end
\* that is preceded by whitespace is the modifier.  The call is the outcome of
\* that modifier and of the rest as the entry.  Without a modifier at the
\* start, a note keeps its whole text and the reference date, and a trailing
\* 'yesterday' or 'today' leaves the reference date.
C8_OneModifier ==
    (LogDone /\ Prefixed) =>
        /\ result = LogDated(call.message, call.source, IsNoteMessage, Modifier, Entry,
                             GivenReference)
        /\ (IsNoteMessage /\ ~HasStartModifier(Content)) =>
               /\ result.error = "none"
               /\ result.value.date = DateText(DateOf(LogReference))
               /\ result.value.record.notes = Content
        /\ (HasTrailingWord(Content) /\ ~HasStartModifier(Content) /\ result.error = "none") =>
               result.value.date = DateText(DateOf(LogReference))

\* a /log message with a modifier at the start and an ISO date at the end: the
\* date is the one at the start and the one at the end stays in the entry
C8_Witness ==
    /\ LogDone /\ IsLogMessage
    /\ HasStartModifier(Content) /\ HasEndModifier(Content)
    /\ IsoShape(Modifier[1])
    /\ result.error = "none"
    /\ result.value.date = Modifier[1]
    /\ result.value.date # SubSeq(Content, Len(Content) - 9, Len(Content))
    /\ result.value.record.notes = SubSeq(Content, Len(Content) - 9, Len(Content))

\* C9: the timestamp of the record is the resolved date, 'T', the reference's
\* hour:minute:second in the Pacific zone and the reference's offset as
\* -HH:MM or +HH:MM; the modifier decides the date part only; the date string
\* returned with the record is the first ten characters of the timestamp.
C9_Timestamp ==
    (LogDone /\ result.error = "none") =>
        /\ Len(result.value.record.ts) = 25
        /\ SubSeq(result.value.record.ts, 1, 10) = ResolvedDateText(Modifier)
        /\ result.value.record.ts[11] = "T"
        /\ SubSeq(result.value.record.ts, 12, 19) = ClockText(LogReference)
        /\ SubSeq(result.value.record.ts, 20, 25) = OffsetText(UtcOffset(LogReference))
        /\ result.value.date = SubSeq(result.value.record.ts, 1, 10)

\* a winter date given as modifier against a summer reference of another
\* zone: the date is the modifier's, clock and offset are the reference's
C9_Witness ==
    /\ LogDone /\ result.error = "none"
    /\ call.timestamp # None /\ call.timestamp[1].tzinfo = "Asia/Tokyo"
    /\ Modifier # None /\ IsoShape(Modifier[1])
    /\ UtcOffset(LogReference) = PDT
    /\ DateOf(LogReference) # DateOf(GivenReference)
    /\ SubSeq(result.value.record.ts, 1, 10) = Modifier[1]
    /\ SubSeq(result.value.record.ts, 12, 25) = ClockText(LogReference) \o <<"-","0","7",":","0","0">>
-----------------------------------------------------------------------------
(* Cardio attributes *)

CardioDone == pc = "done" /\ call.op = "parseCardioWorkout"

\* the number a phrase spells
PhraseNumber(text) == Float(SelectSeq(text, LAMBDA c : c \in Digits \cup {"."}))

\* the pieces of a kind
PiecesOf(pieces, kind) == {i \in 1..Len(pieces) : pieces[i].kind = kind}

\* the number of the phrase of a kind, absent when the text has no such phrase
Written(pieces, kind) ==
    IF PiecesOf(pieces, kind) = {} THEN None
    ELSE Some(PhraseNumber(pieces[CHOOSE i \in PiecesOf(pieces, kind) : TRUE].text))

\* the free word 'incline' at piece i, whitespace and a number right after it
Borrows(pieces, sep, i) ==
    /\ pieces[i].kind = "note" /\ Lower(pieces[i].text) = <<"i","n","c","l","i","n","e">>
    /\ \A k \in 1..Len(sep) : sep[k] \in Whitespace
    /\ i < Len(pieces) /\ pieces[i+1].text[1] \in Digits

\* the pieces an incline can be read from
InclineReadings(pieces, sep) ==
    PiecesOf(pieces, "incline") \cup {i \in 1..Len(pieces) : Borrows(pieces, sep, i)}

\* the incline read from the leftmost of them: its own number, or the number
\* of the phrase that follows the free word
InclineOf(pieces, sep, i) ==
    IF pieces[i].kind = "incline" THEN Some(PhraseNumber(pieces[i].text))
    ELSE Some(PhraseNumber(pieces[i+1].text))

InclineRead(pieces, sep, readings) ==
    IF readings = {} THEN None
    ELSE InclineOf(pieces, sep, CHOOSE i \in readings : \A j \in readings : i <= j)

\* the three attributes that are read from their own phrase only
OwnPhrases(record, pieces) ==
    /\ record.duration_min = Written(pieces, "duration")
    /\ record.speed_mph = Written(pieces, "speed")
    /\ record.distance_miles = Written(pieces, "distance")

\* C11 as stated: each of the four attributes of a cardio record is the number
\* of its own phrase, whatever the order of the phrases, and is absent when
\* the text has no phrase of its own
C11_AsStated ==
    CardioDone =>
        /\ result.error = "none"
        /\ OwnPhrases(result.value, call.pieces)
        /\ result.value.incline_percent = Written(call.pieces, "incline")

\* C11: duration, speed and distance are the number of their own phrase,
\* whatever the order of the phrases, and absent without it; the incline is
\* read from the leftmost of its own phrase and a free word 'incline' that
\* whitespace separates from the number of the next phrase, and is absent
\* when the text has neither
C11_Independent ==
    CardioDone =>
        /\ result.error = "none"
        /\ OwnPhrases(result.value, call.pieces)
        /\ result.value.incline_percent =
               InclineRead(call.pieces, call.sep, InclineReadings(call.pieces, call.sep))

\* the four phrases written in an order that is not the order of the searches
C11_Witness ==
    /\ CardioDone
    /\ Len(call.pieces) = 4
    /\ call.pieces[1].kind = "distance" /\ call.pieces[2].kind = "incline"
    /\ call.pieces[3].kind = "speed" /\ call.pieces[4].kind = "duration"
    /\ result.value.distance_miles = Some(<<4, 0>>)
    /\ result.value.incline_percent = Some(<<25, 1>>)
    /\ result.value.speed_mph = Some(<<32, 1>>)
    /\ result.value.duration_min = Some(<<12, 0>>)

-----------------------------------------------------------------------------
(* Prefix and empty entry; notes (checked under SpecLog) *)

\* no whitespace-separated token is left in the entry
NoTokenLeft(entry) == \A i \in 1..Len(entry) : entry[i] \in Whitespace

C13_Note ==
    (LogDone /\ IsNoteMessage) =>
        /\ result.error = "none"
        /\ result.value.record.type = Some("note")
        /\ result.value.record.notes = Strip(EntryOf(Content, FALSE))
        /\ DOMAIN result.value.record \cap {"exercise", "modality", "sets"} = {}

\* a note with a date at its start and an ISO date at its end, which stays in
\* the notes
C13_Witness ==
    /\ LogDone /\ IsNoteMessage
    /\ HasStartModifier(Content) /\ HasEndModifier(Content)
    /\ result.error = "none"
    /\ result.value.record.type = Some("note")
    /\ Len(result.value.record.notes) > 10
    /\ result.value.record.notes = SubSeq(Content, Len(Content) - Len(result.value.record.notes) + 1, Len(Content))
    /\ result.value.date # SubSeq(Content, Len(Content) - 9, Len(Content))

-----------------------------------------------------------------------------
(* parseRepList (checked under SpecRepList) *)

RepListDone == pc = "done" /\ call.op = "parseRepList"

\* the comma-separated pieces without surrounding whitespace
TrimmedEntries(s) == [i \in 1..Len(Entries(s)) |-> Strip(Entries(s)[i])]

\* what the list holds for a piece: a failed set for a marker, else the count
EntryFor(piece) ==
    IF IsMarker(piece, FailMarkers) THEN [reps |-> 0, failed |-> Some(TRUE)]
    ELSE [reps |-> DigitsVal(piece), failed |-> None]

\* every piece is a marker or a non-negative integer
AllEntriesValid(pieces) ==
    \A i \in 1..Len(pieces) : IsMarker(pieces[i], FailMarkers) \/ IsDigits(pieces[i])

RepListAsStated(pieces) ==
    IF AllEntriesValid(pieces)
    THEN /\ result.error = "none"
         /\ result.value = [i \in 1..Len(pieces) |-> EntryFor(pieces[i])]
    ELSE /\ result.error = "InvalidRepToken"
         /\ result.value = <<>>

\* C14 as stated: parseRepList returns one entry per comma-separated piece,
\* in order: reps 0 and failed for a piece that is x, f or fail in any letter
\* case, the rep count for a piece that is a non-negative integer, surrounding
\* whitespace ignored; any other piece makes the call fail with
\* InvalidRepToken and nothing is returned
C14_AsStated == RepListDone => RepListAsStated(TrimmedEntries(call.rep_str))

-----------------------------------------------------------------------------
(* Record shapes (checked under SpecLog) *)

\* the record has no value for the key
Absent(record, key) == key \notin DOMAIN record \/ record[key] = None

\* the canonical identifiers normalizeExercise can return
Identifiers == {e[2] : e \in EXERCISE_MAP}

CardioShape(record) ==
    /\ "modality" \in DOMAIN record
    /\ record.modality \in Identifiers
    /\ getExerciseType(record.modality) = Some("cardio")
    /\ \A key \in {"exercise", "sets", "unit"} : Absent(record, key)

StrengthShape(record) ==
    /\ "exercise" \in DOMAIN record /\ "sets" \in DOMAIN record
    /\ record.exercise \in Identifiers
    /\ getExerciseType(record.exercise) = record.type
    /\ \A key \in {"modality", "duration_min", "speed_mph", "incline_percent",
                   "distance_miles"} : Absent(record, key)

RecordShape(record) ==
    IF record.type = Some("cardio") THEN CardioShape(record)
    ELSE /\ record.type \in {Some("strength"), Some("bodyweight"), Some("machine")}
         /\ StrengthShape(record)

\* C15: the type of every record returned for a /log message is the category
\* of its canonical identifier; a cardio record has a modality and no
\* exercise, sets or unit; a strength, bodyweight or machine record has an
\* exercise and sets and no modality, duration, speed, incline or distance;
\* every identifier normalizeExercise can return has a category and no call
\* fails with 'Unknown exercise type'
C15_RecordShape ==
    /\ \A id \in Identifiers : getExerciseType(id) # None
    /\ LogDone => result.error # "UnknownExerciseType"
    /\ (LogDone /\ IsLogMessage /\ result.error = "none") => RecordShape(result.value.record)

\* a machine exercise named by an alias of three words
C15_Witness ==
    /\ LogDone /\ IsLogMessage /\ result.error = "none"
    /\ Len(Split(Entry)) = 4
    /\ result.value.record.type = Some("machine")
    /\ result.value.record.exercise = "tricep_dip_machine"
    /\ result.value.record.sets = <<Weighted(<<5, 0>>, 5)>>

-----------------------------------------------------------------------------
(* rpe (checked under SpecStrength) *)

\* C16 as stated: the rpe of a record, when present, is an integer from 1 to 10
C16_RpeRange ==
    (StrengthDone /\ Returned /\ result.value.rpe # None) => result.value.rpe[1] \in 1..10

-----------------------------------------------------------------------------
(* Failed sets (checked under SpecSets) *)

\* no set of the record is failed with a rep count other than 0
FailedSetsHaveNoReps(sets) ==
    \A i \in 1..Len(sets) : sets[i].failed = TRUE => sets[i].reps = 0

\* C17: in every entry returned by parseRepList and in every set of every
\* record returned by parseStrengthWorkout and parseWorkoutLog, failed implies
\* reps 0
C17_FailedNoReps ==
    /\ (RepListDone /\ result.error = "none") =>
           \A i \in 1..Len(result.value) :
               result.value[i].failed = Some(TRUE) => result.value[i].reps = 0
    /\ (StrengthDone /\ Returned) => FailedSetsHaveNoReps(result.value.sets)
    /\ (LogDone /\ result.error = "none" /\ "sets" \in DOMAIN result.value.record) =>
           FailedSetsHaveNoReps(result.value.record.sets)

\* a weighted rep list whose last set failed
C17_Witness ==
    /\ StrengthDone /\ Returned
    /\ Len(result.value.sets) = 3
    /\ result.value.sets[1] = Weighted(<<225, 0>>, 2)
    /\ result.value.sets[2] = Weighted(<<225, 0>>, 1)
    /\ result.value.sets[3] = FailedSet(Some(<<225, 0>>))

-----------------------------------------------------------------------------
(* Bare integer for a bodyweight exercise (checked under SpecStrength) *)

\* the tokens after the first, joined by single spaces
AfterFirst == Join(Tail(Parts))

\* C19: for a bodyweight exercise whose first token is a bare non-negative
\* integer N the record has exactly one set of N reps, no weight and no unit,
\* whatever follows; the tokens that follow are never read as sets: they are
\* scanned for the rpe and are the notes
C19_BareInteger ==
    (StrengthDone /\ IsBodyweight(call.exercise_norm) /\ Len(Parts) >= 1 /\ IsDigits(Parts[1])) =>
        /\ HasSets(<<Unweighted(DigitsVal(Parts[1]))>>, None)
        /\ result.value.rpe = FindRpe(AfterFirst)
        /\ result.value.notes = Strip(RemoveRpe(AfterFirst))
        /\ FindRpe(AfterFirst) = None => result.value.notes = AfterFirst

\* a bare integer followed by a rep list with a failed set
C19_Witness ==
    /\ StrengthDone /\ call.exercise_norm = "pull_up"
    /\ Parts = <<<<"5">>, <<"2", ",", "1", ",", "x">>>>
    /\ result.error = "none"
    /\ result.value.sets = <<Unweighted(5)>>
    /\ result.value.unit = None
    /\ result.value.notes = <<"2", ",", "1", ",", "x">>

-----------------------------------------------------------------------------
(* Dumbbell pair notation (checked under SpecStrength) *)

\* the token is 2xW
IsPairToken(s) == Len(s) >= 3 /\ s[1] = "2" /\ s[2] \in XChars /\ IsDigits(SubSeq(s, 3, Len(s)))

\* the token is Uxr1,...,rk with the x at position k
IsSetsListAt(s, k) ==
    /\ s[k] \in XChars
    /\ IsDigits(SubSeq(s, 1, k - 1))
    /\ \A i \in 1..Len(Entries(SubSeq(s, k + 1, Len(s)))) :
           IsDigits(Entries(SubSeq(s, k + 1, Len(s)))[i])

IsSetsList(s) == \E k \in 1..Len(s) : IsSetsListAt(s, k)

\* U sets of r1 reps, then one set for each of r2..rk, all at weight w
PairSetsAt(s, k, w) ==
    LET reps == Entries(SubSeq(s, k + 1, Len(s)))
    IN  [i \in 1..DigitsVal(SubSeq(s, 1, k - 1)) |-> Weighted(w, DigitsVal(reps[1]))]
        \o [i \in 1..(Len(reps) - 1) |-> Weighted(w, DigitsVal(reps[i + 1]))]

PairSets(s, w) == PairSetsAt(s, CHOOSE k \in 1..Len(s) : IsSetsListAt(s, k), w)

\* the dumbbell exercise's first token is 2xW
DumbbellPairCase ==
    StrengthDone /\ IsDumbbell(call.exercise_norm) /\ Len(Parts) >= 1 /\ IsPairToken(Parts[1])

\* C20 as stated: for a dumbbell exercise whose first token is 2xW, a second
\* token Uxr1,...,rk gives U sets of r1 reps and one set for each further rep
\* count, in order, all at weight W, and notes that start with 'per dumbbell';
\* an absent or malformed second token gives a record without sets
C20_AsStated ==
    DumbbellPairCase =>
        IF Len(Parts) >= 2 /\ IsSetsList(Parts[2])
        THEN /\ Returned
             /\ result.value.sets = PairSets(Parts[2], Float(SubSeq(Parts[1], 3, Len(Parts[1]))))
             /\ StartsWith(result.value.notes, PerDumbbell)
        ELSE /\ Returned
             /\ result.value.sets = <<>>

-----------------------------------------------------------------------------
(* The database files (checked under SpecWriter) *)

\* the database directory of a call
DbDirOf(w) == IF w.db_dir = None THEN DefaultDbDir ELSE w.db_dir[1]

\* <db_dir>/<year>/<month>/<day>.jsonl for a date YYYY-MM-DD
DatedPath(db_dir, date) ==
    db_dir \o <<SubSeq(date, 1, 4), SubSeq(date, 6, 7), SubSeq(date, 9, 10) \o <<".","j","s","o","n","l">>>>

\* the calls that wrote to the path: dry_run false and the path of their date
WritesTo(path) ==
    SelectSeq(written, LAMBDA w : /\ ~w.dry_run /\ IsoShape(w.date)
                                  /\ DatedPath(DbDirOf(w), w.date) = path)

\* the lines of a text: every line ends with a line break
LinesOf(text) == SubSeq(SplitOn(text, "\n"), 1, Len(SplitOn(text, "\n")) - 1)

\* the file of the path holds one line for each of the calls, in their order
HoldsLines(path, calls) ==
    IF calls = <<>> THEN path \notin DOMAIN fs.files
    ELSE /\ path \in DOMAIN fs.files
         /\ fs.files[path] # <<>> /\ fs.files[path][Len(fs.files[path])] = "\n"
         /\ LinesOf(fs.files[path]) = [i \in 1..Len(calls) |-> JsonDumps(calls[i].record)]

\* the paths of the dates that were given and of the files that exist
KnownPaths ==
    DOMAIN fs.files
        \cup {DatedPath(DbDirOf(written[i]), written[i].date) :
                 i \in {j \in 1..Len(written) : IsoShape(written[j].date)}}

FilesHoldWrites == \A path \in KnownPaths : HoldsLines(path, WritesTo(path))

\* a step keeps every file and what it held, at its start
KeepsLines ==
    \A path \in DOMAIN fs.files :
        /\ path \in DOMAIN fs'.files
        /\ Len(fs'.files[path]) >= Len(fs.files[path])
        /\ SubSeq(fs'.files[path], 1, Len(fs.files[path])) = fs.files[path]

\* a call with a date YYYY-MM-DD returns the path of the date, and with
\* dry_run it leaves the file system as it was
ReturnsPath ==
    (written' # written /\ IsoShape(call'.date)) =>
        /\ result' = Ok(DatedPath(DbDirOf(call'), call'.date))
        /\ call'.dry_run => fs' = fs

\* C18: after any sequence of calls of writeWorkoutLog the file
\* <db_dir>/<year>/<month>/<day>.jsonl of a date holds exactly one JSON line
\* for each record written with that date with dry_run false, in call order;
\* no call changes or removes a line written earlier; a call with dry_run
\* true changes no file and returns the same path
C18_AppendOnly == []FilesHoldWrites /\ [][KeepsLines /\ ReturnsPath]_vars

\* a write, a dry run and a second write for one date: the file has the two
\* lines, the second one of a note with a line break in it
C18_Witness ==
    /\ Len(written) = 3
    /\ \A i \in 1..3 : written[i].date = <<"2","0","2","6","-","0","1","-","3","0">> /\ written[i].db_dir = Some(<<<<"d","b">>>>)
    /\ ~written[1].dry_run /\ written[2].dry_run /\ ~written[3].dry_run
    /\ written[1].record = NoteItems(<<"f","e","l","t"," ","g","o","o","d">>) /\ written[3].record = NoteItems(OddNotes)
    /\ Len(LinesOf(fs.files[<<<<"d","b">>, <<"2","0","2","6">>, <<"0","1">>, <<"3","0",".","j","s","o","n","l">>>>])) = 2
    /\ result = Ok(<<<<"d","b">>, <<"2","0","2","6">>, <<"0","1">>, <<"3","0",".","j","s","o","n","l">>>>)

-----------------------------------------------------------------------------
(* C21: rpe and notes come from the parts the recognizer did not consume.    *)

\* number of parts the recognizer that fired has consumed
ConsumedParts ==
    IF Recognizer2 \/ Recognizer3 THEN 1
    ELSE IF Recognizer4 THEN (IF Len(Parts) > 1 /\ MatchSetsFormat(Parts[2]) THEN 2 ELSE 1)
    ELSE IF Recognizer5 THEN (IF HasThird THEN 2 ELSE 1)
    ELSE IF Recognizer6 THEN 1
    ELSE 2

\* the parts that were not consumed, as one text
Residual == Join(SubSeq(Parts, ConsumedParts + 1, Len(Parts)))

\* positions of s covered by an rpe<digits> marker
InMarker(s, p) == \E i \in 1..p : RpeAt(s, i) /\ p <= DigitRunEnd(s, i + 3)

\* s without the positions a marker covers
RECURSIVE WithoutMarkersFrom(_, _)
WithoutMarkersFrom(s, p) ==
    IF p > Len(s) THEN <<>>
    ELSE (IF InMarker(s, p) THEN <<>> ELSE <<s[p]>>) \o WithoutMarkersFrom(s, p + 1)

ResidualNotes == Strip(WithoutMarkersFrom(Residual, 1))

\* markers of the residual text, by position
MarkerStarts == {i \in 1..Len(Residual) : RpeAt(Residual, i)}

\* the recognizer seeded the note: the dumbbell pair form produced sets
Seeded == Recognizer4 /\ result.value.sets # <<>>

ExpectedNotes ==
    IF Seeded
    THEN (IF ResidualNotes = <<>> THEN PerDumbbell ELSE PerDumbbell \o <<";", " ">> \o ResidualNotes)
    ELSE ResidualNotes

ExpectedRpe ==
    IF MarkerStarts = {} THEN None
    ELSE Some(RpeNumber(Residual, CHOOSE i \in MarkerStarts : \A j \in MarkerStarts : i <= j))

\* C21: whichever recognizer fired, rpe is the number of the (first) rpe
\* marker of the parts the recognizer did not consume, absent when there is
\* none; notes is the text of those parts without the rpe markers, trimmed,
\* absent when empty, and appended to 'per dumbbell' after '; ' when the
\* dumbbell form seeded the note.  No consumed part reaches the notes.
C21_RpeAndNotes ==
    (StrengthDone /\ Len(Parts) >= 1 /\ Returned) =>
        /\ result.value.rpe = ExpectedRpe
        /\ result.value.notes = ExpectedNotes

\* the dumbbell pair form with sets, followed by free text and an rpe marker
C21_Witness ==
    /\ StrengthDone /\ Returned /\ Len(Parts) >= 1
    /\ call.exercise_norm = "dumbbell_bench_press"
    /\ ConsumedParts = 2
    /\ result.value.rpe = Some(7)
    /\ result.value.notes = PerDumbbell \o <<";", " ", "e", "a", "s", "y">>

-----------------------------------------------------------------------------
(* C22: every registered alias phrase is usable in a /log message.           *)

\* the message that logs the alias phrase followed by the remainder f
AliasMessage(alias, f) == LogPrefix \o alias \o <<" ">> \o f

\* the remainder f is valid for the category of the exercise
ValidFor(exercise_norm, f) ==
    Dispatch(exercise_norm, getExerciseType(exercise_norm), f, <<>>).error = "none"

\* the call logged the alias e[1] with a remainder valid for its category
LoggedAlias(e, f) ==
    /\ call.message = AliasMessage(e[1], f)
    /\ ValidFor(e[2], f)

\* C22 as stated: for every alias a of EXERCISE_MAP and every remainder f
\* valid for a's category, '/log ' + a + ' ' + f returns the record of
\* normalizeExercise(a) with sets or attributes parsed from f alone, so no
\* alias of several words is shadowed by a shorter alias that begins it.
C22_AsStated ==
    LogDone =>
        \A e \in EXERCISE_MAP, f \in AliasRests :
            LoggedAlias(e, f) => IsOutcome(OutcomeOf(e[2], f))

-----------------------------------------------------------------------------
(* C23: the date object and the date strings of parseDate agree.             *)

\* year, month and day strings spell the components of the calendar date d
StringsSpell(d) ==
    /\ Spells(result.value.year, 4, d[1])
    /\ Spells(result.value.month, 2, d[2])
    /\ Spells(result.value.day, 2, d[3])

\* C23 as stated: for every token parseDate accepts (absent, 'today',
\* 'yesterday' or an ISO date) the returned date object denotes the year,
\* month and day of the strings returned with it.
C23_AsStated ==
    (DateDone /\ result.error = "none") => StringsSpell(result.value.date_obj)

-----------------------------------------------------------------------------
(* C24: the commit message is truncated to 72 characters.                    *)

FormatDone == pc = "done" /\ call.op = "formatCommitMessage"

\* the record is a note, and the summary the message is made of
IsNoteRecord == Get(call.record, <<"t","y","p","e">>) = Some([str |-> <<"n","o","t","e">>])
Prefix == IF IsNoteRecord THEN <<"n","o","t","e",":"," ">> ELSE <<"w","o","r","k","o","u","t",":"," ">>

\* the text the message summarizes
Summary == IF IsNoteRecord THEN NotesText(call.record) ELSE Join(SummaryParts(call.record))

EndsWithEllipsis(text) == Len(text) >= 3 /\ SubSeq(text, Len(text) - 2, Len(text)) = <<".",".",".">>

\* C24 as stated: for every record, of type note or workout, the message is
\* at most 72 characters long, and it ends with '...' whenever the summary
\* was cut.
C24_AsStated ==
    FormatDone =>
        /\ Len(result.value) <= 72
        /\ result.value # Prefix \o Summary => EndsWithEllipsis(result.value)

-----------------------------------------------------------------------------
(* C25: the commit line of the log and note commands.                        *)

\* the step is a run of log or note that printed the commit line
CommitLinePrinted ==
    /\ call'.op \in {"log", "note"}
    /\ result'.error = "none"
    /\ \E i \in 1..Len(result'.value.lines) : result'.value.lines[i] = Echo(<<"C","o","m","m","i","t","t","e","d"," ","t","o"," ","g","i","t">>)

\* the step added a commit to the repository
CommitCreated == Len(repo') = Len(repo) + 1

\* C25 as stated: log and note print 'Committed to git' only if a commit of
\* the written record was created; when the commit or the push fails inside
\* writeWorkoutLog, or GitPython is not available, the record is appended and
\* the path returned, and the commit line is not printed.
C25_AsStated == [][CommitLinePrinted => CommitCreated]_vars

=============================================================================
